---- MODULE Spec2Model ----
(***************************************************************************)
(* A model of lib/src/jpegrutils.cpp of libultrahdr: the bounded buffer    *)
(* writer (DataStruct and the free-standing Write), the XMP attribute      *)
(* scanner (XMPXmlHandler), the XMP metadata decoder (getMetadataFromXMP)  *)
(* and the two XMP generators.                                             *)
(*                                                                         *)
(* The specifications share the variables; each leaves the variables of    *)
(* the other parts at their initial values:                                *)
(*   SpecDS    DataStruct: construction, then write8/write16/write32/write *)
(*   SpecWrite the free-standing Write on a caller-owned destination       *)
(*   SpecScan  XMPXmlHandler driven by arbitrary tokenizer events          *)
(*   Spec      one call of getMetadataFromXMP, check by check              *)
(*   SpecStrip the three loops of getMetadataFromXMP that remove the       *)
(*             packet header, trailer and padding, iteration by iteration  *)
(*   SpecGen   one call of generateXmpForPrimaryImage or of                *)
(*             generateXmpForSecondaryImage, writer call by writer call    *)
(*   SpecWords DataStruct::write and Write with sizes over the whole range *)
(*             of size_t                                                   *)
(***************************************************************************)
EXTENDS Integers, Sequences, FiniteSets, TLC

(***************************************************************************)
(* Bounds of the model.                                                    *)
(***************************************************************************)
\* size_t is modelled as an unsigned word of WordBits bits.
WordBits == 6
\* Largest capacity a DataStruct or a destination buffer is created with.
MaxCap == 4
\* Longest source range handed to write / Write.
MaxSize == 5
\* Number of tokenizer events delivered to one XMPXmlHandler.
MaxEvents == 6
\* Longest text after the namespace declaration in SpecStrip.
MaxRest == 4

WordModulus == 2 ^ WordBits

\* Unsigned addition of two size_t values.
AddWord(a, b) == (a + b) % WordModulus

\* Unsigned subtraction of two size_t values.
SubWord(a, b) == (a - b + WordModulus) % WordModulus

\* Bytes a caller's source range is made of, and the ranges themselves.  The
\* size passed with a range is the number of bytes the range really has, so
\* cursor + size stays below the word modulus in SpecDS and SpecWrite.
SampleBytes == {1, 2}

RECURSIVE SeqsUpTo(_, _)
SeqsUpTo(S, n) ==
  IF n = 0 THEN {<< >>}
  ELSE LET shorter == SeqsUpTo(S, n - 1)
       IN  shorter \cup {Append(s, b) : s \in {t \in shorter : Len(t) = n - 1}, b \in S}

Srcs == SeqsUpTo(SampleBytes, MaxSize)

\* Values handed to write8 / write16 / write32.
Values8 == {1, 2}
Values16 == {258, 513}
Values32 == {16908546, 33620481}

VARIABLES
  \* DataStruct
  data,        \* the bytes of the malloc'ed region, data[i + 1] is byte i
  length,      \* capacity given to the constructor
  writePos,    \* the write cursor
  \* the destination of the free-standing Write and the caller's cursor
  destination, \* [data, capacity] of the uhdr_compressed_image_t
  position,    \* the size_t& position of the caller
  \* the last call made on either writer and what it returned
  call,        \* [op, src, size]
  ret,         \* bool returned by DataStruct::write*
  status,      \* uhdr_error_info_t returned by Write / getMetadataFromXMP
  \* history of the DataStruct calls
  sumOk,       \* sum of the sizes of the calls that returned true
  \* XMPXmlHandler and the events delivered to it
  handler,     \* the members of XMPXmlHandler
  event,       \* the last event delivered
  nEvents,     \* number of events delivered so far
  everDone,    \* history: the handler has been in state Done
  open,        \* history: the elements the tokenizer has open, innermost first
  \* getMetadataFromXMP
  xmp,         \* the input of the call
  metadata,    \* the uhdr_gainmap_metadata_ext_t the caller passes
  before,      \* history: what that record held when the call was made
  local,       \* the locals xmp_data, xmp_size, offset and i of the call
  reads,       \* history: the indices of the input the loops have read
  str,         \* the text handed to the tokenizer
  present,     \* the local variable present
  pc,          \* where the call of getMetadataFromXMP stands
  \* generateXmpForPrimaryImage / generateXmpForSecondaryImage
  gen,         \* the call in progress: its arguments and the next statement
  writer,      \* the XmlWriter: the elements written and those still open
  item_depth   \* the local variable item_depth

bufVars == <<data, length, writePos, sumOk, ret>>
wrVars == <<destination, position>>
scanVars == <<handler, event, nEvents, everDone, open>>
xmpVars == <<xmp, metadata, before, local, reads, str, present, pc>>
genVars == <<gen, writer, item_depth>>
vars == <<data, length, writePos, destination, position, call, ret, status, sumOk,
          handler, event, nEvents, everDone, open, xmp, metadata, before, local,
          reads, str, present, pc, gen, writer, item_depth>>

(***************************************************************************)
(* Error values.                                                           *)
(***************************************************************************)
g_no_error == [error_code |-> "UHDR_CODEC_OK", has_detail |-> 0, detail |-> ""]

NoCall == [op |-> "none", src |-> << >>, size |-> 0]

(***************************************************************************)
(* DataStruct.                                                             *)
(***************************************************************************)
Zeros(n) == [i \in 1..n |-> 0]

\* DataStruct::DataStruct(size_t s)
DataStruct(s) == [data |-> Zeros(s), length |-> s, writePos |-> 0]

\* The object representation of an n-byte unsigned value (least significant
\* byte first), which write8/16/32 pass to write as &v.
ObjectRep(value, n) == [i \in 1..n |-> (value \div (256 ^ (i - 1))) % 256]

\* memcpy(dst + pos, src, size)
memcpyAtStart(dst, pos, src, size) ==
  [i \in 1..Len(dst) |-> IF i <= size THEN src[i] ELSE dst[i]]
memcpy(dst, pos, src, size) ==
  [i \in 1..Len(dst) |-> IF pos < i /\ i <= pos + size THEN src[i - pos] ELSE dst[i]]

\* The bounds check of DataStruct::write: the negation of
\* writePos + size > length.
WriteFitsOffByOne(pos, size, cap) == ~(AddWord(pos, size) > cap + 1)
WriteFits(pos, size, cap) == ~(AddWord(pos, size) > cap)

\* writePos += size
AdvanceStale(pos, size) == pos
Advance(pos, size) == AddWord(pos, size)

\* DataStruct::write(src, size) on the object d: the object after the call
\* and the value returned.
write(d, src, size) ==
  IF ~WriteFits(d.writePos, size, d.length)
  THEN [d |-> d, ret |-> FALSE]
  ELSE [d |-> [d EXCEPT !.data = memcpy(d.data, d.writePos, src, size),
                        !.writePos = Advance(d.writePos, size)],
        ret |-> TRUE]

This == [data |-> data, length |-> length, writePos |-> writePos]

DoWrite(op, src, size) ==
  LET r == write(This, src, size)
  IN  /\ data' = r.d.data
      /\ length' = r.d.length
      /\ writePos' = r.d.writePos
      /\ ret' = r.ret
      /\ call' = [op |-> op, src |-> src, size |-> size]
      /\ sumOk' = IF r.ret THEN sumOk + size ELSE sumOk
      /\ UNCHANGED <<wrVars, status, scanVars, xmpVars, genVars>>

write8 == \E value \in Values8 : DoWrite("write8", ObjectRep(value, 1), 1)

write16 == \E value \in Values16 : DoWrite("write16", ObjectRep(value, 2), 2)

write32 == \E value \in Values32 : DoWrite("write32", ObjectRep(value, 4), 4)

writeRange == \E src \in Srcs : DoWrite("write", src, Len(src))

(***************************************************************************)
(* The free-standing Write.                                                *)
(***************************************************************************)
MemError(pos, len, cap) ==
  [error_code |-> "UHDR_CODEC_MEM_ERROR", has_detail |-> 1,
   detail |-> "output buffer to store compressed data is too small: write position: "
              \o ToString(pos) \o ", size: " \o ToString(len)
              \o ", capacity: " \o ToString(cap)]

\* The bounds check of Write: the negation of
\* position + length > destination->capacity.
DestFitsOffByOne(pos, len, cap) == ~(AddWord(pos, len) >= cap)
DestFits(pos, len, cap) == ~(AddWord(pos, len) > cap)

\* Write(destination, source, length, position): the destination and the
\* cursor after the call, and the value returned.
Write(dst, source, len, pos) ==
  IF ~DestFits(pos, len, dst.capacity)
  THEN [destination |-> dst, position |-> pos,
        status |-> MemError(pos, len, dst.capacity)]
  ELSE [destination |-> [dst EXCEPT !.data = memcpy(dst.data, pos, source, len)],
        position |-> AddWord(pos, len),
        status |-> g_no_error]

DoWriteDest ==
  \E source \in Srcs :
    LET r == Write(destination, source, Len(source), position)
    IN  /\ destination' = r.destination
        /\ position' = r.position
        /\ status' = r.status
        /\ call' = [op |-> "Write", src |-> source, size |-> Len(source)]
        /\ UNCHANGED <<bufVars, scanVars, xmpVars, genVars>>

(***************************************************************************)
(* Names.                                                                  *)
(***************************************************************************)
\* Name(prefix, suffix): "prefix:suffix"
Name(prefix, suffix) == prefix \o ":" \o suffix

kGainMapPrefix == "hdrgm"
kMapVersion == Name(kGainMapPrefix, "Version")
kMapGainMapMin == Name(kGainMapPrefix, "GainMapMin")
kMapGainMapMax == Name(kGainMapPrefix, "GainMapMax")
kMapGamma == Name(kGainMapPrefix, "Gamma")
kMapOffsetSdr == Name(kGainMapPrefix, "OffsetSDR")
kMapOffsetHdr == Name(kGainMapPrefix, "OffsetHDR")
kMapHDRCapacityMin == Name(kGainMapPrefix, "HDRCapacityMin")
kMapHDRCapacityMax == Name(kGainMapPrefix, "HDRCapacityMax")
kMapBaseRenditionIsHDR == Name(kGainMapPrefix, "BaseRenditionIsHDR")

containerName == "rdf:Description"
versionAttrName == kMapVersion
minContentBoostAttrName == kMapGainMapMin
maxContentBoostAttrName == kMapGainMapMax
gammaAttrName == kMapGamma
offsetSdrAttrName == kMapOffsetSdr
offsetHdrAttrName == kMapOffsetHdr
hdrCapacityMinAttrName == kMapHDRCapacityMin
hdrCapacityMaxAttrName == kMapHDRCapacityMax
baseRenditionIsHdrAttrName == kMapBaseRenditionIsHDR

\* The nine attribute names the handler recognizes.
AttrNames ==
  {versionAttrName, maxContentBoostAttrName, minContentBoostAttrName, gammaAttrName,
   offsetSdrAttrName, offsetHdrAttrName, hdrCapacityMinAttrName, hdrCapacityMaxAttrName,
   baseRenditionIsHdrAttrName}

(***************************************************************************)
(* XMPXmlHandler.  A std::string holding an attribute value is a sequence  *)
(* of one-character strings; names are compared as whole strings.          *)
(***************************************************************************)
\* XMPXmlHandler::XMPXmlHandler()
XMPXmlHandler ==
  [state |-> "NotStrarted", lastAttributeName |-> "",
   versionStr |-> << >>, versionFound |-> FALSE,
   maxContentBoostStr |-> << >>, maxContentBoostFound |-> FALSE,
   minContentBoostStr |-> << >>, minContentBoostFound |-> FALSE,
   gammaStr |-> << >>, gammaFound |-> FALSE,
   offsetSdrStr |-> << >>, offsetSdrFound |-> FALSE,
   offsetHdrStr |-> << >>, offsetHdrFound |-> FALSE,
   hdrCapacityMinStr |-> << >>, hdrCapacityMinFound |-> FALSE,
   hdrCapacityMaxStr |-> << >>, hdrCapacityMaxFound |-> FALSE,
   baseRenditionIsHdrStr |-> << >>, baseRenditionIsHdrFound |-> FALSE]

\* StartElement(context); built is the result of context.BuildTokenValue(&val).
StartElementKeepsStarted(h, built, val) ==
  IF built
  THEN IF val = containerName
       THEN [h EXCEPT !.state = "Started"]
       ELSE IF h.state = "NotStrarted" THEN [h EXCEPT !.state = "NotStrarted"] ELSE h
  ELSE h
StartElementDoneReset(h, built, val) ==
  IF built
  THEN IF val = containerName
       THEN [h EXCEPT !.state = "Started"]
       ELSE [h EXCEPT !.state = "NotStrarted"]
  ELSE h
StartElement(h, built, val) ==
  IF built
  THEN IF val = containerName
       THEN [h EXCEPT !.state = "Started"]
       ELSE IF h.state # "Done" THEN [h EXCEPT !.state = "NotStrarted"] ELSE h
  ELSE h

\* FinishElement(context)
FinishElementUnlessDone(h) ==
  IF h.state # "Done"
  THEN [h EXCEPT !.state = "Done", !.lastAttributeName = ""]
  ELSE h
FinishElement(h) ==
  IF h.state = "Started"
  THEN [h EXCEPT !.state = "Done", !.lastAttributeName = ""]
  ELSE h

\* AttributeName(context)
AttributeName(h, built, val) ==
  IF h.state = "Started" /\ built
  THEN IF val = versionAttrName THEN [h EXCEPT !.lastAttributeName = versionAttrName]
       ELSE IF val = maxContentBoostAttrName
            THEN [h EXCEPT !.lastAttributeName = maxContentBoostAttrName]
       ELSE IF val = minContentBoostAttrName
            THEN [h EXCEPT !.lastAttributeName = minContentBoostAttrName]
       ELSE IF val = gammaAttrName THEN [h EXCEPT !.lastAttributeName = gammaAttrName]
       ELSE IF val = offsetSdrAttrName
            THEN [h EXCEPT !.lastAttributeName = offsetSdrAttrName]
       ELSE IF val = offsetHdrAttrName
            THEN [h EXCEPT !.lastAttributeName = offsetHdrAttrName]
       ELSE IF val = hdrCapacityMinAttrName
            THEN [h EXCEPT !.lastAttributeName = hdrCapacityMinAttrName]
       ELSE IF val = hdrCapacityMaxAttrName
            THEN [h EXCEPT !.lastAttributeName = hdrCapacityMaxAttrName]
       ELSE IF val = baseRenditionIsHdrAttrName
            THEN [h EXCEPT !.lastAttributeName = baseRenditionIsHdrAttrName]
       ELSE [h EXCEPT !.lastAttributeName = ""]
  ELSE h

\* The body of AttributeValue once the value is built: the slot named by
\* lastAttributeName takes the value and its flag is set.
StoreValue(h, val) ==
  IF h.lastAttributeName = versionAttrName
       THEN [h EXCEPT !.versionStr = val, !.versionFound = TRUE]
  ELSE IF h.lastAttributeName = maxContentBoostAttrName
       THEN [h EXCEPT !.maxContentBoostStr = val, !.maxContentBoostFound = TRUE]
  ELSE IF h.lastAttributeName = minContentBoostAttrName
       THEN [h EXCEPT !.minContentBoostStr = val, !.minContentBoostFound = TRUE]
  ELSE IF h.lastAttributeName = gammaAttrName
       THEN [h EXCEPT !.gammaStr = val, !.gammaFound = TRUE]
  ELSE IF h.lastAttributeName = offsetSdrAttrName
       THEN [h EXCEPT !.offsetSdrStr = val, !.offsetSdrFound = TRUE]
  ELSE IF h.lastAttributeName = offsetHdrAttrName
       THEN [h EXCEPT !.offsetHdrStr = val, !.offsetHdrFound = TRUE]
  ELSE IF h.lastAttributeName = hdrCapacityMinAttrName
       THEN [h EXCEPT !.hdrCapacityMinStr = val, !.hdrCapacityMinFound = TRUE]
  ELSE IF h.lastAttributeName = hdrCapacityMaxAttrName
       THEN [h EXCEPT !.hdrCapacityMaxStr = val, !.hdrCapacityMaxFound = TRUE]
  ELSE IF h.lastAttributeName = baseRenditionIsHdrAttrName
       THEN [h EXCEPT !.baseRenditionIsHdrStr = val, !.baseRenditionIsHdrFound = TRUE]
  ELSE h

\* AttributeValue(context); built is the result of
\* context.BuildTokenValue(&val, true).
AttributeValueAnyState(h, built, val) == IF built THEN StoreValue(h, val) ELSE h
AttributeValue(h, built, val) ==
  IF h.state = "Started" /\ built THEN StoreValue(h, val) ELSE h

\* The raw values and found flags of a handler.
RawAttributeSet(h) ==
  <<h.versionStr, h.versionFound,
    h.maxContentBoostStr, h.maxContentBoostFound,
    h.minContentBoostStr, h.minContentBoostFound,
    h.gammaStr, h.gammaFound,
    h.offsetSdrStr, h.offsetSdrFound,
    h.offsetHdrStr, h.offsetHdrFound,
    h.hdrCapacityMinStr, h.hdrCapacityMinFound,
    h.hdrCapacityMaxStr, h.hdrCapacityMaxFound,
    h.baseRenditionIsHdrStr, h.baseRenditionIsHdrFound>>

(***************************************************************************)
(* The tokenizer's events.  The tokenizer (image_io's XmlReader) is outside *)
(* this file: which events it delivers is an input of the model.           *)
(***************************************************************************)
\* Values of attributes as the tokenizer builds them.
ScanTexts == {<<"a">>, <<"b">>}
\* Element names: the target and another one.
ElementNames == {containerName, "rdf:RDF"}
\* Attribute names: the recognized ones and another one.
EventAttrNames == AttrNames \cup {"rdf:about"}

NoEvent == [kind |-> "none", built |-> FALSE, name |-> "", text |-> << >>]

\* The elements open after the event: a start opens one (under the name the
\* handler got for it, "" when the name was not built), an end closes the
\* innermost.  An end with no element open is marked: the sequence is not
\* well nested.
Unmatched == "(end without start)"

Opened(ev) ==
  CASE ev.kind = "StartElement" -> <<ev.name>> \o open
    [] ev.kind = "FinishElement" ->
         IF open = << >> \/ Head(open) = Unmatched THEN <<Unmatched>> ELSE Tail(open)
    [] OTHER -> open

Deliver(ev, h) ==
  /\ nEvents < MaxEvents
  /\ handler' = h
  /\ event' = ev
  /\ nEvents' = nEvents + 1
  /\ everDone' = (everDone \/ h.state = "Done")
  /\ open' = Opened(ev)
  /\ UNCHANGED <<bufVars, wrVars, call, status, xmpVars, genVars>>

OnStartElement ==
  \E built \in BOOLEAN :
    \E val \in (IF built THEN ElementNames ELSE {""}) :
      Deliver([kind |-> "StartElement", built |-> built, name |-> val, text |-> << >>],
              StartElement(handler, built, val))

OnFinishElement ==
  Deliver([kind |-> "FinishElement", built |-> TRUE, name |-> "", text |-> << >>],
          FinishElement(handler))

OnAttributeName ==
  \E built \in BOOLEAN :
    \E val \in (IF built THEN EventAttrNames ELSE {""}) :
      Deliver([kind |-> "AttributeName", built |-> built, name |-> val, text |-> << >>],
              AttributeName(handler, built, val))

OnAttributeValue ==
  \E built \in BOOLEAN :
    \E val \in (IF built THEN ScanTexts ELSE {<< >>}) :
      Deliver([kind |-> "AttributeValue", built |-> built, name |-> "", text |-> val],
              AttributeValue(handler, built, val))

(***************************************************************************)
(* Initial values and the specifications of the writers and the scanner.   *)
(***************************************************************************)
IdleXmp == "none"
IdleMetadata == "none"
IdleLocal == [xmp_data |-> 0, xmp_size |-> 0, offset |-> 0, i |-> 0]
IdleGen == "none"
IdleWriter == "none"

InitDS(s) ==
  /\ data = DataStruct(s).data
  /\ length = DataStruct(s).length
  /\ writePos = DataStruct(s).writePos
  /\ sumOk = 0
  /\ ret = FALSE

InitDest(cap, pos) ==
  /\ destination = [data |-> Zeros(cap), capacity |-> cap]
  /\ position = pos

InitScan ==
  /\ handler = XMPXmlHandler
  /\ event = NoEvent
  /\ nEvents = 0
  /\ everDone = FALSE
  /\ open = << >>

InitLocal == local = IdleLocal /\ reads = {}

InitXmpIdle ==
  /\ xmp = IdleXmp
  /\ metadata = IdleMetadata
  /\ before = IdleMetadata
  /\ InitLocal
  /\ str = << >>
  /\ present = FALSE
  /\ pc = "idle"

InitGenIdle ==
  /\ gen = IdleGen
  /\ writer = IdleWriter
  /\ item_depth = 0

DSInit ==
  /\ \E s \in 0..MaxCap : InitDS(s)
  /\ InitDest(0, 0)
  /\ InitScan
  /\ InitXmpIdle
  /\ InitGenIdle
  /\ call = NoCall
  /\ status = g_no_error

DSNext == write8 \/ write16 \/ write32 \/ writeRange

SpecDS == DSInit /\ [][DSNext]_vars

\* The caller's cursor starts anywhere up to the capacity.
WriteInit ==
  /\ InitDS(0)
  /\ \E cap \in 0..MaxCap : \E pos \in 0..cap : InitDest(cap, pos)
  /\ InitScan
  /\ InitXmpIdle
  /\ InitGenIdle
  /\ call = NoCall
  /\ status = g_no_error

WriteNext == DoWriteDest

SpecWrite == WriteInit /\ [][WriteNext]_vars

ScanInit ==
  /\ InitDS(0)
  /\ InitDest(0, 0)
  /\ InitScan
  /\ InitXmpIdle
  /\ InitGenIdle
  /\ call = NoCall
  /\ status = g_no_error

ScanNext == OnStartElement \/ OnFinishElement \/ OnAttributeName \/ OnAttributeValue

SpecScan == ScanInit /\ [][ScanNext]_vars

(***************************************************************************)
(* Properties of the writers.                                              *)
(***************************************************************************)
DSOps == {"write8", "write16", "write32", "write"}

\* The buffer after size bytes of src are stored at byte offset pos, every
\* other byte kept.
Stored(old, pos, src, size, new) ==
  /\ Len(new) = Len(old)
  /\ \A i \in 1..Len(old) :
       new[i] = IF pos < i /\ i <= pos + size THEN src[i - pos] ELSE old[i]

\* C1: a DataStruct write (write, or write8/16/32 with size 1/2/4) whose size
\* exceeds the remaining capacity, writePos + size > length, returns false
\* and leaves writePos and every byte of the buffer unchanged.
C1_OverflowingWriteIsRejected ==
  [][(call'.op \in DSOps /\ writePos + call'.size > length)
       => (ret' = FALSE /\ writePos' = writePos /\ data' = data)]_vars

\* A call was rejected on a partly filled buffer.
C1_Witness ==
  /\ call.op \in DSOps
  /\ ret = FALSE
  /\ writePos + call.size > length
  /\ 0 < writePos /\ writePos < length

\* C2: after construction with capacity C and any sequence of DataStruct
\* writes, 0 <= writePos <= C, writePos never decreases from one call to the
\* next and equals the sum of the sizes of the calls that returned true, and
\* getLength() stays C.
C2_CursorInvariant ==
  /\ [](0 <= writePos /\ writePos <= length /\ writePos = sumOk /\ Len(data) = length)
  /\ [][writePos' >= writePos /\ length' = length]_vars

\* The buffer is full after accepted calls, and the last call was rejected.
C2_Witness ==
  /\ call.op \in DSOps
  /\ ret = FALSE
  /\ sumOk > 0
  /\ writePos = length

\* C3: a DataStruct write with writePos + size <= length returns true, advances
\* writePos by exactly size, stores the source bytes at
\* [old writePos, old writePos + size) and leaves every other byte unchanged;
\* after a write that exactly fills the buffer getBytesWritten() = getLength().
C3_FittingWriteIsStored ==
  [][(call'.op \in DSOps /\ writePos + call'.size <= length)
       => /\ ret' = TRUE
          /\ writePos' = writePos + call'.size
          /\ Stored(data, writePos, call'.src, call'.size, data')
          /\ (writePos + call'.size = length => writePos' = length')]_vars

\* A write of several bytes has just filled a buffer that already held bytes.
C3_Witness ==
  /\ call.op \in DSOps
  /\ ret = TRUE
  /\ call.size >= 2
  /\ writePos = length
  /\ writePos > call.size

\* C4: Write returns UHDR_CODEC_MEM_ERROR with has_detail = 1 and leaves the
\* cursor and the destination unchanged when position + length exceeds the
\* capacity; otherwise it stores the bytes at [position, position + length),
\* advances position by exactly length and returns g_no_error.  Starting from
\* position <= capacity, position <= capacity holds after every call.
C4_WriteContract ==
  /\ [](position <= destination.capacity)
  /\ [][call'.op = "Write"
          => IF position + call'.size > destination.capacity
             THEN /\ status'.error_code = "UHDR_CODEC_MEM_ERROR"
                  /\ status'.has_detail = 1
                  /\ position' = position
                  /\ destination' = destination
             ELSE /\ status' = g_no_error
                  /\ position' = position + call'.size
                  /\ destination'.capacity = destination.capacity
                  /\ Stored(destination.data, position, call'.src, call'.size,
                            destination'.data)]_vars

\* A call was refused on a destination that earlier calls had partly filled.
C4_Witness ==
  /\ call.op = "Write"
  /\ status.error_code = "UHDR_CODEC_MEM_ERROR"
  /\ position + call.size > destination.capacity
  /\ \E i \in 1..Len(destination.data) : destination.data[i] # 0

(***************************************************************************)
(* Properties of the scanner.                                              *)
(***************************************************************************)
Recorded == RawAttributeSet(handler') # RawAttributeSet(handler)

RECURSIVE GCD(_, _)
GCD(a, b) == IF b = 0 THEN a ELSE GCD(b, a % b)

Abs(x) == IF x < 0 THEN -x ELSE x

Rat(n, d) ==
  LET g == GCD(Abs(n), d)
  IN  IF n = 0 THEN [num |-> 0, den |-> 1] ELSE [num |-> n \div g, den |-> d \div g]

\* exp2(val) for a val that is an integer.
exp2(val) == IF val.num >= 0 THEN Rat(2 ^ val.num, 1) ELSE Rat(1, 2 ^ (-val.num))

Decimals == {"0", "1", "2", "3", "4", "5", "6", "7", "8", "9"}

DigitValue(c) ==
  CASE c = "0" -> 0 [] c = "1" -> 1 [] c = "2" -> 2 [] c = "3" -> 3 [] c = "4" -> 4
    [] c = "5" -> 5 [] c = "6" -> 6 [] c = "7" -> 7 [] c = "8" -> 8 [] c = "9" -> 9

\* The index after the run of characters of S that starts at index i of s.
RECURSIVE RunEnd(_, _, _)
RunEnd(s, i, S) == IF i <= Len(s) /\ s[i] \in S THEN RunEnd(s, i + 1, S) ELSE i

\* The value of the decimal digits s[i .. j - 1].
RECURSIVE DigitsValue(_, _, _)
DigitsValue(s, i, j) ==
  IF i >= j THEN 0 ELSE DigitsValue(s, i, j - 1) * 10 + DigitValue(s[j - 1])

\* stringstream ss(s); float val; ss >> val: leading white space is skipped,
\* then a sign, digits, a point and digits are read; the extraction fails
\* when no digit is read.  [ok, val]
ExtractFloat(s) ==
  LET b == RunEnd(s, 1, {" "})
      signed == b <= Len(s) /\ s[b] \in {"+", "-"}
      i0 == IF signed THEN b + 1 ELSE b
      i1 == RunEnd(s, i0, Decimals)
      point == i1 <= Len(s) /\ s[i1] = "."
      f0 == IF point THEN i1 + 1 ELSE i1
      f1 == RunEnd(s, f0, Decimals)
      scale == 10 ^ (f1 - f0)
      mag == DigitsValue(s, i0, i1) * scale + DigitsValue(s, f0, f1)
  IN  IF (i1 - i0) + (f1 - f0) = 0
      THEN [ok |-> FALSE, val |-> Rat(0, 1)]
      ELSE [ok |-> TRUE,
            val |-> Rat(IF signed /\ s[b] = "-" THEN -mag ELSE mag, scale)]

(***************************************************************************)
(* The accessors of XMPXmlHandler.  Each takes the current contents of its *)
(* two output arguments and gives the value returned and the contents      *)
(* after the call: [ret, out, present]; pres is *present before the call.  *)
(***************************************************************************)
\* getVersion(&version, &present)
getVersionInAnyState(h, version, pres) ==
  [ret |-> TRUE, out |-> h.versionStr, present |-> h.versionFound]
getVersion(h, version, pres) ==
  IF h.state = "Done"
  THEN [ret |-> TRUE, out |-> h.versionStr, present |-> h.versionFound]
  ELSE [ret |-> FALSE, out |-> version, present |-> pres]

\* The body shared by getMaxContentBoost, getMinContentBoost,
\* getHdrCapacityMin and getHdrCapacityMax: *out = exp2(val).
getLog2Defaulting(h, raw, found, out, pres) ==
  IF h.state = "Done"
  THEN IF ExtractFloat(raw).ok
       THEN [ret |-> TRUE, out |-> exp2(ExtractFloat(raw).val), present |-> found]
       ELSE [ret |-> FALSE, out |-> out, present |-> FALSE]
  ELSE [ret |-> FALSE, out |-> out, present |-> pres]
getLog2(h, raw, found, out, pres) ==
  IF h.state = "Done"
  THEN IF ExtractFloat(raw).ok
       THEN [ret |-> TRUE, out |-> exp2(ExtractFloat(raw).val), present |-> found]
       ELSE [ret |-> FALSE, out |-> out, present |-> found]
  ELSE [ret |-> FALSE, out |-> out, present |-> pres]

\* The body shared by getGamma, getOffsetSdr and getOffsetHdr: *out = val.
getLinear(h, raw, found, out, pres) ==
  IF h.state = "Done"
  THEN IF ExtractFloat(raw).ok
       THEN [ret |-> TRUE, out |-> ExtractFloat(raw).val, present |-> found]
       ELSE [ret |-> FALSE, out |-> out, present |-> found]
  ELSE [ret |-> FALSE, out |-> out, present |-> pres]

getMaxContentBoost(h, out, pres) ==
  getLog2(h, h.maxContentBoostStr, h.maxContentBoostFound, out, pres)

getMinContentBoost(h, out, pres) ==
  getLog2(h, h.minContentBoostStr, h.minContentBoostFound, out, pres)

getGamma(h, out, pres) == getLinear(h, h.gammaStr, h.gammaFound, out, pres)

getOffsetSdr(h, out, pres) ==
  getLinear(h, h.offsetSdrStr, h.offsetSdrFound, out, pres)

getOffsetHdr(h, out, pres) ==
  getLinear(h, h.offsetHdrStr, h.offsetHdrFound, out, pres)

getHdrCapacityMin(h, out, pres) ==
  getLog2(h, h.hdrCapacityMinStr, h.hdrCapacityMinFound, out, pres)

getHdrCapacityMax(h, out, pres) ==
  getLog2(h, h.hdrCapacityMaxStr, h.hdrCapacityMaxFound, out, pres)

StrFalse == <<"F", "a", "l", "s", "e">>
StrTrue == <<"T", "r", "u", "e">>

\* getBaseRenditionIsHdr(&base_rendition_is_hdr, &present)
getBaseRenditionIsHdr(h, out, pres) ==
  IF h.state = "Done"
  THEN IF h.baseRenditionIsHdrStr = StrFalse
       THEN [ret |-> TRUE, out |-> FALSE, present |-> h.baseRenditionIsHdrFound]
       ELSE IF h.baseRenditionIsHdrStr = StrTrue
            THEN [ret |-> TRUE, out |-> TRUE, present |-> h.baseRenditionIsHdrFound]
            ELSE [ret |-> FALSE, out |-> out, present |-> h.baseRenditionIsHdrFound]
  ELSE [ret |-> FALSE, out |-> out, present |-> pres]

(***************************************************************************)
(* getMetadataFromXMP: the checks on the packet and the range handed to    *)
(* the tokenizer.  xmp_data is a sequence of one-character strings, byte i *)
(* of it is xmp_data[i + 1]; "NUL" is the zero byte.                       *)
(***************************************************************************)
\* string nameSpace = "http://ns.adobe.com/xap/1.0/\0": the constructor takes
\* the characters up to the first zero byte.
nameSpace ==
  <<"h", "t", "t", "p", ":", "/", "/", "n", "s", ".", "a", "d", "o", "b",
    "e", ".", "c", "o", "m", "/", "x", "a", "p", "/", "1", ".", "0", "/">>

\* nameSpace.c_str()
c_str(s) == s \o <<"NUL">>

\* strncmp(s1, s2, n): 0 when the first n characters agree, or all the
\* characters up to and including a common zero byte.
strncmpButLast(s1, s2, n) ==
  IF \E i \in 1..(n - 1) :
       /\ s1[i] # s2[i]
       /\ \A j \in 1..(i - 1) : s1[j] = s2[j] /\ s1[j] # "NUL"
  THEN 1 ELSE 0
strncmp(s1, s2, n) ==
  IF \E i \in 1..n :
       /\ s1[i] # s2[i]
       /\ \A j \in 1..(i - 1) : s1[j] = s2[j] /\ s1[j] # "NUL"
  THEN 1 ELSE 0

Min(S) == CHOOSE x \in S : \A y \in S : x <= y
Max(S) == CHOOSE x \in S : \A y \in S : x >= y

\* The first loop: the position of the first '<' that no '?' follows, among
\* the positions 0 .. xmp_size - 2; 0 when there is none.
HeaderOffset(d, size) ==
  LET hits == {i \in 0..(size - 2) : d[i + 1] = "<" /\ d[i + 2] # "?"}
  IN  IF hits = {} THEN 0 ELSE Min(hits)

\* The second loop: the number of bytes after the last '>' that no '?'
\* precedes, among the positions xmp_size - 1 .. 1; 0 when there is none.
TrailerOffset(d, size) ==
  LET hits == {i \in 1..(size - 1) : d[i + 1] = ">" /\ d[i] # "?"}
  IN  IF hits = {} THEN 0 ELSE size - (Max(hits) + 1)

\* while (xmp_data[xmp_size - 1] != '>' && xmp_size > 1) xmp_size--;
RECURSIVE RemovePadding(_, _)
RemovePadding(d, size) ==
  IF d[size] # ">" /\ size > 1 THEN RemovePadding(d, size - 1) ELSE size

\* The string handed to the tokenizer, for a packet that passed the checks.
XmlPortion(xmp_data, xmp_size) ==
  LET d0 == SubSeq(xmp_data, Len(nameSpace) + 2, Len(xmp_data))
      n0 == xmp_size - (Len(nameSpace) + 1)
      off1 == HeaderOffset(d0, n0)
      d1 == SubSeq(d0, off1 + 1, Len(d0))
      n1 == n0 - off1
      n2 == n1 - TrailerOffset(d1, n1)
  IN  SubSeq(d1, 1, RemovePadding(d1, n2))

(***************************************************************************)
(* The tokenizer's run over the string: the callbacks it makes on the      *)
(* handler, in order.                                                      *)
(***************************************************************************)
Callback(h, ev) ==
  CASE ev.kind = "StartElement" -> StartElement(h, ev.built, ev.name)
    [] ev.kind = "FinishElement" -> FinishElement(h)
    [] ev.kind = "AttributeName" -> AttributeName(h, ev.built, ev.name)
    [] ev.kind = "AttributeValue" -> AttributeValue(h, ev.built, ev.text)

\* reader.StartParse(rule); reader.Parse(str); reader.FinishParse()
RECURSIVE Parse(_, _)
Parse(h, events) ==
  IF events = << >> THEN h ELSE Parse(Callback(h, Head(events)), Tail(events))

(***************************************************************************)
(* The XMP generators.  A generator is the list of the calls it makes on   *)
(* its XmlWriter, in the order of its statements.  XmlWriter belongs to    *)
(* image_io and is outside this file: it is modelled by its contract, as   *)
(* the elements written so far (name, parent, attributes in the order      *)
(* written, closed or not) and the stack of the elements still open.       *)
(* A string is the sequence of its characters.                             *)
(***************************************************************************)
kContainerPrefix == "Container"
kConDirectory == Name(kContainerPrefix, "Directory")
kConItem == Name(kContainerPrefix, "Item")
kItemPrefix == "Item"
kItemLength == Name(kItemPrefix, "Length")
kItemMime == Name(kItemPrefix, "Mime")
kItemSemantic == Name(kItemPrefix, "Semantic")

kContainerUri ==
  <<"h", "t", "t", "p", ":", "/", "/", "n", "s", ".", "g", "o",
    "o", "g", "l", "e", ".", "c", "o", "m", "/", "p", "h", "o",
    "t", "o", "s", "/", "1", ".", "0", "/", "c", "o", "n", "t",
    "a", "i", "n", "e", "r", "/">>
kItemUri ==
  <<"h", "t", "t", "p", ":", "/", "/", "n", "s", ".", "g", "o",
    "o", "g", "l", "e", ".", "c", "o", "m", "/", "p", "h", "o",
    "t", "o", "s", "/", "1", ".", "0", "/", "c", "o", "n", "t",
    "a", "i", "n", "e", "r", "/", "i", "t", "e", "m", "/">>
kGainMapUri ==
  <<"h", "t", "t", "p", ":", "/", "/", "n", "s", ".", "a", "d",
    "o", "b", "e", ".", "c", "o", "m", "/", "h", "d", "r", "-",
    "g", "a", "i", "n", "-", "m", "a", "p", "/", "1", ".", "0",
    "/">>
kSemanticPrimary == <<"P", "r", "i", "m", "a", "r", "y">>
kSemanticGainMap == <<"G", "a", "i", "n", "M", "a", "p">>
kMimeImageJpeg == <<"i", "m", "a", "g", "e", "/", "j", "p", "e", "g">>

\* The literals of the two generators.
XNamespace ==
  <<"a", "d", "o", "b", "e", ":", "n", "s", ":", "m", "e", "t",
    "a", "/">>
XmpToolkit ==
  <<"A", "d", "o", "b", "e", " ", "X", "M", "P", " ", "C", "o",
    "r", "e", " ", "5", ".", "1", ".", "2">>
RdfNamespace ==
  <<"h", "t", "t", "p", ":", "/", "/", "w", "w", "w", ".", "w",
    "3", ".", "o", "r", "g", "/", "1", "9", "9", "9", "/", "0",
    "2", "/", "2", "2", "-", "r", "d", "f", "-", "s", "y", "n",
    "t", "a", "x", "-", "n", "s", "#">>
Resource == <<"R", "e", "s", "o", "u", "r", "c", "e">>

\* Number of significant digits an output stream writes of a float.
Precision == 6
\* log2 is taken of the powers of two from 2^-MaxLog2 to 2^MaxLog2.
MaxLog2 == 4

DigitChar(d) == <<"0", "1", "2", "3", "4", "5", "6", "7", "8", "9">>[d + 1]

\* ss << n for an unsigned integer n.
RECURSIVE FormatNat(_)
FormatNat(n) ==
  IF n < 10 THEN <<DigitChar(n)>> ELSE FormatNat(n \div 10) \o <<DigitChar(n % 10)>>

\* The digits of num / den (< 1) after the point, up to k significant ones.
RECURSIVE FractionDigits(_, _, _, _)
FractionDigits(num, den, k, significant) ==
  IF num = 0 \/ k = 0
  THEN << >>
  ELSE LET d == (10 * num) \div den
           s == significant \/ d # 0
       IN  <<DigitChar(d)>>
             \o FractionDigits((10 * num) % den, den, IF s THEN k - 1 ELSE k, s)

\* ss << val for a float val, in the default notation: no exponent for the
\* magnitudes of the model, no trailing zeros, no point for an integer.
FormatFloat(val) ==
  LET magnitude == Abs(val.num)
      whole == magnitude \div val.den
      digits == IF whole = 0 THEN 0 ELSE Len(FormatNat(whole))
      fraction == FractionDigits(magnitude % val.den, val.den, Precision - digits,
                                 whole # 0)
  IN  (IF val.num < 0 THEN <<"-">> ELSE << >>)
        \o FormatNat(whole)
        \o (IF fraction = << >> THEN << >> ELSE <<".">> \o fraction)

\* log2(x) for an x that is a power of two.
log2(x) == Rat(CHOOSE k \in (-MaxLog2)..MaxLog2 : exp2(Rat(k, 1)) = x, 1)

\* The values a generator hands to WriteAttributeNameAndValue: a string, a
\* float or a size_t.
String(s) == [type |-> "string", text |-> s, number |-> Rat(0, 1)]
Float(x) == [type |-> "float", text |-> << >>, number |-> x]
Size(n) == [type |-> "size_t", text |-> << >>, number |-> Rat(n, 1)]

\* The text XmlWriter writes for a value.
Written(value) ==
  CASE value.type = "string" -> value.text
    [] value.type = "float" -> FormatFloat(value.number)
    [] value.type = "size_t" -> FormatNat(value.number.num)

\* XmlWriter writer(ss)
XmlWriter == [elements |-> << >>, pending |-> << >>]

\* writer.StartWritingElement(name): opens name inside the innermost open
\* element; returns the nesting depth before name is opened.  [writer, depth]
StartWritingElement(w, name) ==
  [writer |->
     [elements |->
        Append(w.elements,
               [name |-> name,
                parent |-> IF w.pending = << >> THEN 0 ELSE w.pending[Len(w.pending)],
                attributes |-> << >>,
                closed |-> FALSE]),
      pending |-> Append(w.pending, Len(w.elements) + 1)],
   depth |-> Len(w.pending)]

\* writer.StartWritingElements(names): opens the names one inside the other.
RECURSIVE StartWritingElements(_, _)
StartWritingElements(w, names) ==
  IF names = << >>
  THEN w
  ELSE StartWritingElements(StartWritingElement(w, Head(names)).writer, Tail(names))

\* writer.WriteAttributeNameAndValue(name, value): an attribute of the
\* innermost open element.
WriteAttributeNameAndValue(w, name, value) ==
  IF w.pending = << >>
  THEN w
  ELSE LET e == w.pending[Len(w.pending)]
       IN  [w EXCEPT !.elements[e].attributes =
                       Append(@, [name |-> name, value |-> Written(value)])]

\* writer.WriteXmlns(prefix, uri): the attribute xmlns:prefix="uri".
WriteXmlns(w, prefix, uri) ==
  WriteAttributeNameAndValue(w, Name("xmlns", prefix), String(uri))

\* writer.FinishWritingElementsToDepth(depth): closes the innermost open
\* elements until depth of them are open.
RECURSIVE FinishWritingElementsToDepth(_, _)
FinishWritingElementsToDepth(w, depth) ==
  IF Len(w.pending) <= depth
  THEN w
  ELSE FinishWritingElementsToDepth(
         [elements |-> [w.elements EXCEPT ![w.pending[Len(w.pending)]].closed = TRUE],
          pending |-> SubSeq(w.pending, 1, Len(w.pending) - 1)],
         depth)

\* writer.FinishWriting(): closes every open element.
FinishWriting(w) == FinishWritingElementsToDepth(w, 0)

\* The statements of a generator: the writer call, its arguments, and the
\* local variable the statement assigns ("item_depth = ...") or passes.
Start(name) ==
  [call |-> "StartWritingElement", names |-> <<name>>, value |-> String(<< >>),
   variable |-> ""]
StartInto(variable, name) ==
  [call |-> "StartWritingElement", names |-> <<name>>, value |-> String(<< >>),
   variable |-> variable]
StartAll(names) ==
  [call |-> "StartWritingElements", names |-> names, value |-> String(<< >>),
   variable |-> ""]
Xmlns(prefix, uri) ==
  [call |-> "WriteXmlns", names |-> <<prefix>>, value |-> String(uri), variable |-> ""]
Attribute(name, value) ==
  [call |-> "WriteAttributeNameAndValue", names |-> <<name>>, value |-> value,
   variable |-> ""]
FinishToDepth(variable) ==
  [call |-> "FinishWritingElementsToDepth", names |-> << >>, value |-> String(<< >>),
   variable |-> variable]
Finish ==
  [call |-> "FinishWriting", names |-> << >>, value |-> String(<< >>), variable |-> ""]

kConDirSeq == <<kConDirectory, "rdf:Seq">>

\* generateXmpForPrimaryImage without the FinishWritingElementsToDepth.
generateXmpForPrimaryImageUnclosed(secondary_image_length, m) ==
  <<Start("x:xmpmeta"),
    Xmlns("x", XNamespace),
    Attribute("x:xmptk", String(XmpToolkit)),
    Start("rdf:RDF"),
    Xmlns("rdf", RdfNamespace),
    Start("rdf:Description"),
    Xmlns(kContainerPrefix, kContainerUri),
    Xmlns(kItemPrefix, kItemUri),
    Xmlns(kGainMapPrefix, kGainMapUri),
    Attribute(kMapVersion, String(m.version)),
    StartAll(kConDirSeq),
    StartInto("item_depth", "rdf:li"),
    Attribute("rdf:parseType", String(Resource)),
    Start(kConItem),
    Attribute(kItemSemantic, String(kSemanticPrimary)),
    Attribute(kItemMime, String(kMimeImageJpeg)),
    Start("rdf:li"),
    Attribute("rdf:parseType", String(Resource)),
    Start(kConItem),
    Attribute(kItemSemantic, String(kSemanticGainMap)),
    Attribute(kItemMime, String(kMimeImageJpeg)),
    Attribute(kItemLength, Size(secondary_image_length)),
    Finish>>

\* generateXmpForPrimaryImage(secondary_image_length, metadata)
generateXmpForPrimaryImage(secondary_image_length, m) ==
  <<Start("x:xmpmeta"),
    Xmlns("x", XNamespace),
    Attribute("x:xmptk", String(XmpToolkit)),
    Start("rdf:RDF"),
    Xmlns("rdf", RdfNamespace),
    Start("rdf:Description"),
    Xmlns(kContainerPrefix, kContainerUri),
    Xmlns(kItemPrefix, kItemUri),
    Xmlns(kGainMapPrefix, kGainMapUri),
    Attribute(kMapVersion, String(m.version)),
    StartAll(kConDirSeq),
    StartInto("item_depth", "rdf:li"),
    Attribute("rdf:parseType", String(Resource)),
    Start(kConItem),
    Attribute(kItemSemantic, String(kSemanticPrimary)),
    Attribute(kItemMime, String(kMimeImageJpeg)),
    FinishToDepth("item_depth"),
    Start("rdf:li"),
    Attribute("rdf:parseType", String(Resource)),
    Start(kConItem),
    Attribute(kItemSemantic, String(kSemanticGainMap)),
    Attribute(kItemMime, String(kMimeImageJpeg)),
    Attribute(kItemLength, Size(secondary_image_length)),
    Finish>>

\* generateXmpForSecondaryImage with GainMapMin and GainMapMax exchanged.
generateXmpForSecondaryImageMaxFirst(m) ==
  <<Start("x:xmpmeta"),
    Xmlns("x", XNamespace),
    Attribute("x:xmptk", String(XmpToolkit)),
    Start("rdf:RDF"),
    Xmlns("rdf", RdfNamespace),
    Start("rdf:Description"),
    Xmlns(kGainMapPrefix, kGainMapUri),
    Attribute(kMapVersion, String(m.version)),
    Attribute(kMapGainMapMax, Float(log2(m.max_content_boost))),
    Attribute(kMapGainMapMin, Float(log2(m.min_content_boost))),
    Attribute(kMapGamma, Float(m.gamma)),
    Attribute(kMapOffsetSdr, Float(m.offset_sdr)),
    Attribute(kMapOffsetHdr, Float(m.offset_hdr)),
    Attribute(kMapHDRCapacityMin, Float(log2(m.hdr_capacity_min))),
    Attribute(kMapHDRCapacityMax, Float(log2(m.hdr_capacity_max))),
    Attribute(kMapBaseRenditionIsHDR, String(StrFalse)),
    Finish>>

\* generateXmpForSecondaryImage writing the boosts themselves as GainMapMin
\* and GainMapMax.
generateXmpForSecondaryImageLinear(m) ==
  <<Start("x:xmpmeta"),
    Xmlns("x", XNamespace),
    Attribute("x:xmptk", String(XmpToolkit)),
    Start("rdf:RDF"),
    Xmlns("rdf", RdfNamespace),
    Start("rdf:Description"),
    Xmlns(kGainMapPrefix, kGainMapUri),
    Attribute(kMapVersion, String(m.version)),
    Attribute(kMapGainMapMin, Float(m.min_content_boost)),
    Attribute(kMapGainMapMax, Float(m.max_content_boost)),
    Attribute(kMapGamma, Float(m.gamma)),
    Attribute(kMapOffsetSdr, Float(m.offset_sdr)),
    Attribute(kMapOffsetHdr, Float(m.offset_hdr)),
    Attribute(kMapHDRCapacityMin, Float(log2(m.hdr_capacity_min))),
    Attribute(kMapHDRCapacityMax, Float(log2(m.hdr_capacity_max))),
    Attribute(kMapBaseRenditionIsHDR, String(StrFalse)),
    Finish>>

\* generateXmpForSecondaryImage(metadata)
generateXmpForSecondaryImage(m) ==
  <<Start("x:xmpmeta"),
    Xmlns("x", XNamespace),
    Attribute("x:xmptk", String(XmpToolkit)),
    Start("rdf:RDF"),
    Xmlns("rdf", RdfNamespace),
    Start("rdf:Description"),
    Xmlns(kGainMapPrefix, kGainMapUri),
    Attribute(kMapVersion, String(m.version)),
    Attribute(kMapGainMapMin, Float(log2(m.min_content_boost))),
    Attribute(kMapGainMapMax, Float(log2(m.max_content_boost))),
    Attribute(kMapGamma, Float(m.gamma)),
    Attribute(kMapOffsetSdr, Float(m.offset_sdr)),
    Attribute(kMapOffsetHdr, Float(m.offset_hdr)),
    Attribute(kMapHDRCapacityMin, Float(log2(m.hdr_capacity_min))),
    Attribute(kMapHDRCapacityMax, Float(log2(m.hdr_capacity_max))),
    Attribute(kMapBaseRenditionIsHDR, String(StrFalse)),
    Finish>>

\* The records handed to the generators: boosts and capacities that are
\* powers of two, a gamma and offsets that Precision digits write exactly.
Records ==
  [version : {<<"1", ".", "0">>},
   max_content_boost : {Rat(2, 1), Rat(4, 1)},
   min_content_boost : {Rat(1, 2), Rat(1, 1)},
   gamma : {Rat(1, 1), Rat(3, 2)},
   offset_sdr : {Rat(1, 64), Rat(1, 2)},
   offset_hdr : {Rat(1, 64), Rat(1, 4)},
   hdr_capacity_min : {Rat(1, 1), Rat(2, 1)},
   hdr_capacity_max : {Rat(2, 1), Rat(8, 1)}]

FewRecords ==
  {r \in Records : r.gamma = Rat(1, 1) /\ r.offset_sdr = r.offset_hdr
                     /\ r.hdr_capacity_min = Rat(1, 1)}

\* The values of secondary_image_length.
Lengths == {0, 7, 1024}

\* One call of a generator: the function, its arguments, the statement it is
\* at and whether it has returned ss.str().
Calls ==
  [function : {"generateXmpForPrimaryImage"}, secondary_image_length : Lengths,
   metadata : FewRecords, at : {1}, returned : {FALSE}]
  \cup [function : {"generateXmpForSecondaryImage"}, secondary_image_length : {0},
        metadata : Records, at : {1}, returned : {FALSE}]

Statements(g) ==
  IF g.function = "generateXmpForPrimaryImage"
  THEN generateXmpForPrimaryImage(g.secondary_image_length, g.metadata)
  ELSE generateXmpForSecondaryImage(g.metadata)

Statement == Statements(gen)[gen.at]

At(method) ==
  ~gen.returned /\ gen.at <= Len(Statements(gen)) /\ Statement.call = method

GenFrame == UNCHANGED <<bufVars, wrVars, scanVars, xmpVars, call, status>>

CallStartWritingElement ==
  /\ At("StartWritingElement")
  /\ LET r == StartWritingElement(writer, Statement.names[1])
     IN  /\ writer' = r.writer
         /\ item_depth' = IF Statement.variable = "item_depth" THEN r.depth
                          ELSE item_depth
  /\ gen' = [gen EXCEPT !.at = @ + 1]
  /\ GenFrame

CallStartWritingElements ==
  /\ At("StartWritingElements")
  /\ writer' = StartWritingElements(writer, Statement.names)
  /\ gen' = [gen EXCEPT !.at = @ + 1]
  /\ UNCHANGED item_depth
  /\ GenFrame

CallWriteXmlns ==
  /\ At("WriteXmlns")
  /\ writer' = WriteXmlns(writer, Statement.names[1], Statement.value.text)
  /\ gen' = [gen EXCEPT !.at = @ + 1]
  /\ UNCHANGED item_depth
  /\ GenFrame

CallWriteAttributeNameAndValue ==
  /\ At("WriteAttributeNameAndValue")
  /\ writer' = WriteAttributeNameAndValue(writer, Statement.names[1], Statement.value)
  /\ gen' = [gen EXCEPT !.at = @ + 1]
  /\ UNCHANGED item_depth
  /\ GenFrame

CallFinishWritingElementsToDepth ==
  /\ At("FinishWritingElementsToDepth")
  /\ writer' = FinishWritingElementsToDepth(writer, item_depth)
  /\ gen' = [gen EXCEPT !.at = @ + 1]
  /\ UNCHANGED item_depth
  /\ GenFrame

CallFinishWriting ==
  /\ At("FinishWriting")
  /\ writer' = FinishWriting(writer)
  /\ gen' = [gen EXCEPT !.at = @ + 1]
  /\ UNCHANGED item_depth
  /\ GenFrame

\* return ss.str();
ReturnString ==
  /\ ~gen.returned
  /\ gen.at = Len(Statements(gen)) + 1
  /\ gen' = [gen EXCEPT !.returned = TRUE]
  /\ UNCHANGED <<writer, item_depth>>
  /\ GenFrame

GenInit ==
  /\ InitDS(0)
  /\ InitDest(0, 0)
  /\ InitScan
  /\ InitXmpIdle
  /\ call = NoCall
  /\ status = g_no_error
  /\ gen \in Calls
  /\ writer = XmlWriter
  /\ item_depth = 0

GenNext ==
  \/ CallStartWritingElement
  \/ CallStartWritingElements
  \/ CallWriteXmlns
  \/ CallWriteAttributeNameAndValue
  \/ CallFinishWritingElementsToDepth
  \/ CallFinishWriting
  \/ ReturnString

SpecGen == GenInit /\ [][GenNext]_vars

(***************************************************************************)
(* The inputs of getMetadataFromXMP.  A packet is its bytes together with  *)
(* the element the tokenizer finds in it: the attributes of the element    *)
(* (doc), where the element sits (shape), and whether the tokenizer        *)
(* reports errors.                                                         *)
(***************************************************************************)
Absent == [present |-> FALSE, text |-> << >>]
Present(t) == [present |-> TRUE, text |-> t]

\* For every attribute: left out, given a well-formed value, or given a
\* value its type does not admit.
Docs ==
  [version : {Absent, Present(<<"1", ".", "0">>)},
   maxContentBoost : {Absent, Present(<<"2">>), Present(<<"a", "b", "c">>)},
   minContentBoost : {Absent, Present(<<"-", "1">>), Present(<<"l", "o">>)},
   gamma : {Absent, Present(<<"1", ".", "5">>), Present(<< >>)},
   offsetSdr : {Absent, Present(<<"0", ".", "5">>), Present(<<"n", "/", "a">>)},
   offsetHdr : {Absent, Present(<<"0", ".", "2", "5">>), Present(<<"?">>)},
   hdrCapacityMin : {Absent, Present(<<"1">>), Present(<<"m", "i", "n">>)},
   hdrCapacityMax : {Absent, Present(<<"3">>), Present(<<"x">>)},
   baseRenditionIsHdr : {Absent, Present(StrFalse), Present(StrTrue),
                         Present(<<"f", "a", "l", "s", "e">>)}]

AllPresent ==
  [version |-> Present(<<"1", ".", "0">>), maxContentBoost |-> Present(<<"2">>),
   minContentBoost |-> Present(<<"-", "1">>), gamma |-> Present(<<"1", ".", "5">>),
   offsetSdr |-> Present(<<"0", ".", "5">>), offsetHdr |-> Present(<<"0", ".", "2", "5">>),
   hdrCapacityMin |-> Present(<<"1">>), hdrCapacityMax |-> Present(<<"3">>),
   baseRenditionIsHdr |-> Present(StrFalse)]

AllAbsent ==
  [version |-> Absent, maxContentBoost |-> Absent, minContentBoost |-> Absent,
   gamma |-> Absent, offsetSdr |-> Absent, offsetHdr |-> Absent,
   hdrCapacityMin |-> Absent, hdrCapacityMax |-> Absent, baseRenditionIsHdr |-> Absent]

FewDocs == {AllPresent, AllAbsent, [AllPresent EXCEPT !.gamma = Present(<< >>)]}

ElementStart(name) ==
  [kind |-> "StartElement", built |-> TRUE, name |-> name, text |-> << >>]

ElementEnd == [kind |-> "FinishElement", built |-> TRUE, name |-> "", text |-> << >>]

AttributeEvents(name, a) ==
  IF a.present
  THEN <<[kind |-> "AttributeName", built |-> TRUE, name |-> name, text |-> << >>],
         [kind |-> "AttributeValue", built |-> TRUE, name |-> "", text |-> a.text]>>
  ELSE << >>

\* The attributes of doc, in the order generateXmpForSecondaryImage writes them.
DocAttributes(doc) ==
  AttributeEvents(kMapVersion, doc.version)
    \o AttributeEvents(kMapGainMapMin, doc.minContentBoost)
    \o AttributeEvents(kMapGainMapMax, doc.maxContentBoost)
    \o AttributeEvents(kMapGamma, doc.gamma)
    \o AttributeEvents(kMapOffsetSdr, doc.offsetSdr)
    \o AttributeEvents(kMapOffsetHdr, doc.offsetHdr)
    \o AttributeEvents(kMapHDRCapacityMin, doc.hdrCapacityMin)
    \o AttributeEvents(kMapHDRCapacityMax, doc.hdrCapacityMax)
    \o AttributeEvents(kMapBaseRenditionIsHDR, doc.baseRenditionIsHdr)

Prologue ==
  <<ElementStart("x:xmpmeta")>>
    \o AttributeEvents("x:xmptk", Present(<<"X", "M", "P">>))
    \o <<ElementStart("rdf:RDF")>>

\* "leaf":   <rdf:Description attributes/> inside x:xmpmeta and rdf:RDF
\* "child":  the rdf:Description has a child element
\* "other":  the attributes sit on an element that is not rdf:Description
\* "second": a second rdf:Description, with a gamma of its own, follows
\* "unclosed": the text ends inside the rdf:Description
Shapes == {"leaf", "child", "other", "second", "unclosed"}

DocEvents(doc, shape) ==
  CASE shape = "leaf" ->
         Prologue \o <<ElementStart(containerName)>> \o DocAttributes(doc)
           \o <<ElementEnd, ElementEnd, ElementEnd>>
    [] shape = "child" ->
         Prologue \o <<ElementStart(containerName)>> \o DocAttributes(doc)
           \o <<ElementStart("Container:Directory"), ElementEnd>>
           \o <<ElementEnd, ElementEnd, ElementEnd>>
    [] shape = "other" ->
         Prologue \o <<ElementStart("rdf:Bag")>> \o DocAttributes(doc)
           \o <<ElementEnd, ElementEnd, ElementEnd>>
    [] shape = "second" ->
         Prologue \o <<ElementStart(containerName)>> \o DocAttributes(doc)
           \o <<ElementEnd, ElementStart(containerName)>>
           \o AttributeEvents(kMapGamma, Present(<<"2">>))
           \o <<ElementEnd, ElementEnd, ElementEnd>>
    [] shape = "unclosed" ->
         Prologue \o <<ElementStart(containerName)>> \o DocAttributes(doc)

Body == <<"<", "x", "/", ">">>

\* The namespace declaration, its zero byte and the markup.
PacketPlain == c_str(nameSpace) \o Body

\* The same with a packet wrapper around the markup and padding after it.
PacketWrapped ==
  c_str(nameSpace) \o <<"<", "?", "p", "?", ">">> \o Body
    \o <<"<", "?", "e", "?", ">">> \o <<" ", " ">>

\* The namespace declaration and its zero byte alone: one byte too short.
PacketShort == c_str(nameSpace)

\* Another namespace.
PacketOtherNamespace ==
  SubSeq(nameSpace, 1, Len(nameSpace) - 1) \o <<"#", "NUL">> \o Body

\* The namespace declaration followed by a byte that is not zero.
PacketNoNul == nameSpace \o <<"x">> \o Body

\* Another namespace from the first byte on.
PacketOtherScheme == <<"f">> \o Tail(c_str(nameSpace)) \o Body

\* A zero byte inside the namespace declaration.
PacketNulInside ==
  SubSeq(nameSpace, 1, 4) \o <<"NUL">> \o SubSeq(c_str(nameSpace), 6, Len(nameSpace) + 1)
    \o Body

\* Too short and not the namespace either.
PacketShortOther == <<"x", "m", "p">>

Packets ==
  {PacketPlain, PacketWrapped, PacketShort, PacketOtherNamespace, PacketNoNul,
   PacketOtherScheme, PacketNulInside, PacketShortOther}

Range(s) == {s[k] : k \in DOMAIN s}

(***************************************************************************)
(* The packets made of the text generateXmpForSecondaryImage returns.      *)
(***************************************************************************)
\* One statement of a generator run on the writer.  [writer, item_depth]
Execute(w, depth, s) ==
  CASE s.call = "StartWritingElement" ->
         LET r == StartWritingElement(w, s.names[1])
         IN  [writer |-> r.writer,
              item_depth |-> IF s.variable = "item_depth" THEN r.depth ELSE depth]
    [] s.call = "StartWritingElements" ->
         [writer |-> StartWritingElements(w, s.names), item_depth |-> depth]
    [] s.call = "WriteXmlns" ->
         [writer |-> WriteXmlns(w, s.names[1], s.value.text), item_depth |-> depth]
    [] s.call = "WriteAttributeNameAndValue" ->
         [writer |-> WriteAttributeNameAndValue(w, s.names[1], s.value),
          item_depth |-> depth]
    [] s.call = "FinishWritingElementsToDepth" ->
         [writer |-> FinishWritingElementsToDepth(w, depth), item_depth |-> depth]
    [] s.call = "FinishWriting" ->
         [writer |-> FinishWriting(w), item_depth |-> depth]

\* The writer after the statements, run in order.
RECURSIVE Run(_, _, _)
Run(w, depth, statements) ==
  IF statements = << >>
  THEN w
  ELSE LET r == Execute(w, depth, Head(statements))
       IN  Run(r.writer, r.item_depth, Tail(statements))

RECURSIVE Ascending(_)
Ascending(S) == IF S = {} THEN << >> ELSE <<Min(S)>> \o Ascending(S \ {Min(S)})

\* The elements written directly inside element i, in the order written.
Inside(elements, i) == Ascending({j \in DOMAIN elements : elements[j].parent = i})

\* The characters of the names the generators write.
Spelling(name) ==
  CASE name = "x:xmpmeta" ->
         <<"x", ":", "x", "m", "p", "m", "e", "t", "a">>
    [] name = "xmlns:x" ->
         <<"x", "m", "l", "n", "s", ":", "x">>
    [] name = "x:xmptk" ->
         <<"x", ":", "x", "m", "p", "t", "k">>
    [] name = "rdf:RDF" ->
         <<"r", "d", "f", ":", "R", "D", "F">>
    [] name = "xmlns:rdf" ->
         <<"x", "m", "l", "n", "s", ":", "r", "d", "f">>
    [] name = "rdf:Description" ->
         <<"r", "d", "f", ":", "D", "e", "s", "c", "r", "i", "p", "t",
           "i", "o", "n">>
    [] name = "xmlns:Container" ->
         <<"x", "m", "l", "n", "s", ":", "C", "o", "n", "t", "a", "i",
           "n", "e", "r">>
    [] name = "xmlns:Item" ->
         <<"x", "m", "l", "n", "s", ":", "I", "t", "e", "m">>
    [] name = "xmlns:hdrgm" ->
         <<"x", "m", "l", "n", "s", ":", "h", "d", "r", "g", "m">>
    [] name = "hdrgm:Version" ->
         <<"h", "d", "r", "g", "m", ":", "V", "e", "r", "s", "i", "o",
           "n">>
    [] name = "hdrgm:GainMapMin" ->
         <<"h", "d", "r", "g", "m", ":", "G", "a", "i", "n", "M", "a",
           "p", "M", "i", "n">>
    [] name = "hdrgm:GainMapMax" ->
         <<"h", "d", "r", "g", "m", ":", "G", "a", "i", "n", "M", "a",
           "p", "M", "a", "x">>
    [] name = "hdrgm:Gamma" ->
         <<"h", "d", "r", "g", "m", ":", "G", "a", "m", "m", "a">>
    [] name = "hdrgm:OffsetSDR" ->
         <<"h", "d", "r", "g", "m", ":", "O", "f", "f", "s", "e", "t",
           "S", "D", "R">>
    [] name = "hdrgm:OffsetHDR" ->
         <<"h", "d", "r", "g", "m", ":", "O", "f", "f", "s", "e", "t",
           "H", "D", "R">>
    [] name = "hdrgm:HDRCapacityMin" ->
         <<"h", "d", "r", "g", "m", ":", "H", "D", "R", "C", "a", "p",
           "a", "c", "i", "t", "y", "M", "i", "n">>
    [] name = "hdrgm:HDRCapacityMax" ->
         <<"h", "d", "r", "g", "m", ":", "H", "D", "R", "C", "a", "p",
           "a", "c", "i", "t", "y", "M", "a", "x">>
    [] name = "hdrgm:BaseRenditionIsHDR" ->
         <<"h", "d", "r", "g", "m", ":", "B", "a", "s", "e", "R", "e",
           "n", "d", "i", "t", "i", "o", "n", "I", "s", "H", "D", "R">>
    [] name = "Container:Directory" ->
         <<"C", "o", "n", "t", "a", "i", "n", "e", "r", ":", "D", "i",
           "r", "e", "c", "t", "o", "r", "y">>
    [] name = "rdf:Seq" ->
         <<"r", "d", "f", ":", "S", "e", "q">>
    [] name = "rdf:li" ->
         <<"r", "d", "f", ":", "l", "i">>
    [] name = "rdf:parseType" ->
         <<"r", "d", "f", ":", "p", "a", "r", "s", "e", "T", "y", "p",
           "e">>
    [] name = "Container:Item" ->
         <<"C", "o", "n", "t", "a", "i", "n", "e", "r", ":", "I", "t",
           "e", "m">>
    [] name = "Item:Semantic" ->
         <<"I", "t", "e", "m", ":", "S", "e", "m", "a", "n", "t", "i",
           "c">>
    [] name = "Item:Mime" ->
         <<"I", "t", "e", "m", ":", "M", "i", "m", "e">>
    [] name = "Item:Length" ->
         <<"I", "t", "e", "m", ":", "L", "e", "n", "g", "t", "h">>

RECURSIVE AttributesText(_)
AttributesText(attributes) ==
  IF attributes = << >>
  THEN << >>
  ELSE <<" ">> \o Spelling(Head(attributes).name) \o <<"=", "\"">>
         \o Head(attributes).value \o <<"\"">> \o AttributesText(Tail(attributes))

\* ss.str(): the markup of the elements written, element i and the elements
\* inside it; the line breaks and the indentation of the writer are left out.
RECURSIVE ElementText(_, _)
RECURSIVE ElementsText(_, _)
ElementText(elements, i) ==
  <<"<">> \o Spelling(elements[i].name) \o AttributesText(elements[i].attributes)
    \o (IF Inside(elements, i) = << >>
        THEN <<"/", ">">>
        ELSE <<">">> \o ElementsText(elements, Inside(elements, i))
               \o <<"<", "/">> \o Spelling(elements[i].name) \o <<">">>)
ElementsText(elements, is) ==
  IF is = << >>
  THEN << >>
  ELSE ElementText(elements, Head(is)) \o ElementsText(elements, Tail(is))

RECURSIVE AttributesTokens(_)
AttributesTokens(attributes) ==
  IF attributes = << >>
  THEN << >>
  ELSE AttributeEvents(Head(attributes).name, Present(Head(attributes).value))
         \o AttributesTokens(Tail(attributes))

\* The callbacks the tokenizer makes for the markup of element i.
RECURSIVE ElementTokens(_, _)
RECURSIVE ElementsTokens(_, _)
ElementTokens(elements, i) ==
  <<ElementStart(elements[i].name)>> \o AttributesTokens(elements[i].attributes)
    \o ElementsTokens(elements, Inside(elements, i)) \o <<ElementEnd>>
ElementsTokens(elements, is) ==
  IF is = << >>
  THEN << >>
  ELSE ElementTokens(elements, Head(is)) \o ElementsTokens(elements, Tail(is))

\* The writer of generateXmpForSecondaryImage(r) when it returns.
SecondaryWriter(r) == Run(XmlWriter, 0, generateXmpForSecondaryImage(r))

\* The string generateXmpForSecondaryImage(r) returns.
SecondaryText(r) ==
  ElementsText(SecondaryWriter(r).elements, Inside(SecondaryWriter(r).elements, 0))

\* The attribute of rdf:Description the writer wrote under name.
WrittenAttribute(w, name) ==
  LET found == {a \in UNION {Range(w.elements[i].attributes) :
                               i \in {i \in DOMAIN w.elements :
                                        w.elements[i].name = containerName}} :
                  a.name = name}
  IN  IF found = {} THEN Absent ELSE Present((CHOOSE a \in found : TRUE).value)

WrittenDoc(w) ==
  [version |-> WrittenAttribute(w, kMapVersion),
   maxContentBoost |-> WrittenAttribute(w, kMapGainMapMax),
   minContentBoost |-> WrittenAttribute(w, kMapGainMapMin),
   gamma |-> WrittenAttribute(w, kMapGamma),
   offsetSdr |-> WrittenAttribute(w, kMapOffsetSdr),
   offsetHdr |-> WrittenAttribute(w, kMapOffsetHdr),
   hdrCapacityMin |-> WrittenAttribute(w, kMapHDRCapacityMin),
   hdrCapacityMax |-> WrittenAttribute(w, kMapHDRCapacityMax),
   baseRenditionIsHdr |-> WrittenAttribute(w, kMapBaseRenditionIsHDR)]

\* The text of generateXmpForSecondaryImage for every record, as it is
\* returned and with the namespace declaration and its zero byte before it.
GeneratedInputs ==
  {[data |-> prefix \o SecondaryText(r), doc |-> WrittenDoc(SecondaryWriter(r)),
    shape |-> "generated", hasErrors |-> FALSE, record |-> r] :
     prefix \in {<< >>, c_str(nameSpace)}, r \in Records}

\* The callbacks the tokenizer makes for the markup of packet x.
Tokens(x) ==
  IF x.shape = "generated"
  THEN ElementsTokens(SecondaryWriter(x.record).elements,
                      Inside(SecondaryWriter(x.record).elements, 0))
  ELSE DocEvents(x.doc, x.shape)

\* Every doc in a wrapped, leaf-shaped, error-free packet; a few docs in every
\* other combination.
Inputs ==
  {[data |-> PacketWrapped, doc |-> d, shape |-> "leaf", hasErrors |-> FALSE] :
     d \in Docs}
  \cup [data : Packets, doc : FewDocs, shape : Shapes, hasErrors : BOOLEAN]

\* What the caller's record holds before the call: one of two records that
\* differ in every field.
OtherStaleMetadata ==
  [version |-> <<"9">>, max_content_boost |-> Rat(9, 1),
   min_content_boost |-> Rat(9, 1), gamma |-> Rat(9, 1), offset_sdr |-> Rat(9, 1),
   offset_hdr |-> Rat(9, 1), hdr_capacity_min |-> Rat(9, 1),
   hdr_capacity_max |-> Rat(9, 1)]

StaleMetadata ==
  [version |-> <<"?">>, max_content_boost |-> Rat(-7, 1),
   min_content_boost |-> Rat(-7, 1), gamma |-> Rat(-7, 1), offset_sdr |-> Rat(-7, 1),
   offset_hdr |-> Rat(-7, 1), hdr_capacity_min |-> Rat(-7, 1),
   hdr_capacity_max |-> Rat(-7, 1)]

StaleRecords == {StaleMetadata, OtherStaleMetadata}

(***************************************************************************)
(* getMetadataFromXMP, one action per check.  pc names the check the call  *)
(* is about to make; a check that fails returns its error.                 *)
(***************************************************************************)
CodecError(detail) ==
  [error_code |-> "UHDR_CODEC_ERROR", has_detail |-> 1, detail |-> detail]

CouldNotFind(name) == CodecError("xml parse error, could not find attribute " \o name)

UnableToParse(name) == CodecError("xml parse error, unable to parse attribute " \o name)

xmp_data == xmp.data
xmp_size == Len(xmp.data)

Return(s) == status' = s /\ pc' = "returned"

Goto(label) == pc' = label /\ status' = status

Untouched ==
  UNCHANGED <<bufVars, wrVars, call, event, nEvents, everDone, open, xmp, before,
              local, reads, genVars>>

\* if (xmp_size < nameSpace.size() + 2)
CheckSize ==
  /\ pc = "start"
  /\ IF xmp_size < Len(nameSpace) + 2
     THEN Return(CodecError("size of xmp block is expected to be atleast "
                            \o ToString(Len(nameSpace) + 2)
                            \o " bytes, received only " \o ToString(xmp_size)
                            \o " bytes"))
     ELSE Goto("namespace")
  /\ UNCHANGED <<handler, metadata, str, present>>
  /\ Untouched

\* The text printf writes for %.*s with precision n: the characters of s up
\* to its first zero byte, n of them at most.
RECURSIVE Printed(_, _)
Printed(s, n) ==
  IF n = 0 \/ s = << >> \/ Head(s) = "NUL" THEN "" ELSE Head(s) \o Printed(Tail(s), n - 1)

\* if (strncmp(xmp_data, nameSpace.c_str(), nameSpace.size()))
CheckNameSpace ==
  /\ pc = "namespace"
  /\ IF strncmp(xmp_data, c_str(nameSpace), Len(nameSpace)) # 0
     THEN Return(CodecError("mismatch in namespace of xmp block. Expected "
                            \o Printed(c_str(nameSpace), Len(nameSpace) + 1)
                            \o ", Got " \o Printed(xmp_data, Len(nameSpace))))
     ELSE Goto("parse")
  /\ UNCHANGED <<handler, metadata, str, present>>
  /\ Untouched

ParseXmlErrorsUnchecked ==
  /\ pc = "parse"
  /\ str' = XmlPortion(xmp_data, xmp_size)
  /\ handler' = Parse(XMPXmlHandler, Tokens(xmp))
  /\ Goto("version")
  /\ present' = FALSE
  /\ UNCHANGED metadata
  /\ Untouched
\* The header, trailer and padding are removed, the tokenizer runs over the
\* string and makes its callbacks on a new handler; reader.HasErrors().
ParseXml ==
  /\ pc = "parse"
  /\ str' = XmlPortion(xmp_data, xmp_size)
  /\ handler' = Parse(XMPXmlHandler, Tokens(xmp))
  /\ IF xmp.hasErrors
     THEN Return([error_code |-> "UHDR_CODEC_UNKNOWN_ERROR", has_detail |-> 1,
                  detail |-> "xml parser returned with error"])
     ELSE Goto("version")
  /\ present' = FALSE
  /\ UNCHANGED metadata
  /\ Untouched

\* if (!handler.getVersion(&metadata->version, &present) || !present)
ResolveVersionIgnoringPresent ==
  /\ pc = "version"
  /\ LET r == getVersion(handler, metadata.version, present)
     IN  /\ metadata' = [metadata EXCEPT !.version = r.out]
         /\ present' = r.present
         /\ IF ~r.ret THEN Return(CouldNotFind(kMapVersion)) ELSE Goto("maxContentBoost")
  /\ UNCHANGED <<handler, str>>
  /\ Untouched
ResolveVersion ==
  /\ pc = "version"
  /\ LET r == getVersion(handler, metadata.version, present)
     IN  /\ metadata' = [metadata EXCEPT !.version = r.out]
         /\ present' = r.present
         /\ IF ~r.ret \/ ~r.present
            THEN Return(CouldNotFind(kMapVersion))
            ELSE Goto("maxContentBoost")
  /\ UNCHANGED <<handler, str>>
  /\ Untouched

\* if (!handler.getMaxContentBoost(&metadata->max_content_boost, &present) || !present)
ResolveMaxContentBoost ==
  /\ pc = "maxContentBoost"
  /\ LET r == getMaxContentBoost(handler, metadata.max_content_boost, present)
     IN  /\ metadata' = [metadata EXCEPT !.max_content_boost = r.out]
         /\ present' = r.present
         /\ IF ~r.ret \/ ~r.present
            THEN Return(CouldNotFind(kMapGainMapMax))
            ELSE Goto("hdrCapacityMax")
  /\ UNCHANGED <<handler, str>>
  /\ Untouched

\* if (!handler.getHdrCapacityMax(&metadata->hdr_capacity_max, &present) || !present)
ResolveHdrCapacityMax ==
  /\ pc = "hdrCapacityMax"
  /\ LET r == getHdrCapacityMax(handler, metadata.hdr_capacity_max, present)
     IN  /\ metadata' = [metadata EXCEPT !.hdr_capacity_max = r.out]
         /\ present' = r.present
         /\ IF ~r.ret \/ ~r.present
            THEN Return(CouldNotFind(kMapHDRCapacityMax))
            ELSE Goto("minContentBoost")
  /\ UNCHANGED <<handler, str>>
  /\ Untouched

\* if (!handler.getMinContentBoost(&metadata->min_content_boost, &present)) {
\*   if (present) return the error;  metadata->min_content_boost = 1.0f; }
ResolveMinContentBoost ==
  /\ pc = "minContentBoost"
  /\ LET r == getMinContentBoost(handler, metadata.min_content_boost, present)
     IN  /\ present' = r.present
         /\ IF ~r.ret /\ r.present
            THEN Return(UnableToParse(kMapGainMapMin)) /\ UNCHANGED metadata
            ELSE /\ metadata' =
                      [metadata EXCEPT !.min_content_boost = IF r.ret THEN r.out ELSE Rat(1, 1)]
                 /\ Goto("gamma")
  /\ UNCHANGED <<handler, str>>
  /\ Untouched

ResolveGammaNoDefault ==
  /\ pc = "gamma"
  /\ LET r == getGamma(handler, metadata.gamma, present)
     IN  /\ present' = r.present
         /\ IF ~r.ret /\ r.present
            THEN Return(UnableToParse(kMapGamma)) /\ UNCHANGED metadata
            ELSE /\ metadata' = [metadata EXCEPT !.gamma = IF r.ret THEN r.out ELSE @]
                 /\ Goto("offsetSdr")
  /\ UNCHANGED <<handler, str>>
  /\ Untouched
\* if (!handler.getGamma(&metadata->gamma, &present)) {
\*   if (present) return the error;  metadata->gamma = 1.0f; }
ResolveGamma ==
  /\ pc = "gamma"
  /\ LET r == getGamma(handler, metadata.gamma, present)
     IN  /\ present' = r.present
         /\ IF ~r.ret /\ r.present
            THEN Return(UnableToParse(kMapGamma)) /\ UNCHANGED metadata
            ELSE /\ metadata' =
                      [metadata EXCEPT !.gamma = IF r.ret THEN r.out ELSE Rat(1, 1)]
                 /\ Goto("offsetSdr")
  /\ UNCHANGED <<handler, str>>
  /\ Untouched

\* if (!handler.getOffsetSdr(&metadata->offset_sdr, &present)) {
\*   if (present) return the error;  metadata->offset_sdr = 1.0f / 64.0f; }
ResolveOffsetSdr ==
  /\ pc = "offsetSdr"
  /\ LET r == getOffsetSdr(handler, metadata.offset_sdr, present)
     IN  /\ present' = r.present
         /\ IF ~r.ret /\ r.present
            THEN Return(UnableToParse(kMapOffsetSdr)) /\ UNCHANGED metadata
            ELSE /\ metadata' =
                      [metadata EXCEPT !.offset_sdr = IF r.ret THEN r.out ELSE Rat(1, 64)]
                 /\ Goto("offsetHdr")
  /\ UNCHANGED <<handler, str>>
  /\ Untouched

ResolveOffsetHdrDefaultOne ==
  /\ pc = "offsetHdr"
  /\ LET r == getOffsetHdr(handler, metadata.offset_hdr, present)
     IN  /\ present' = r.present
         /\ IF ~r.ret /\ r.present
            THEN Return(UnableToParse(kMapOffsetHdr)) /\ UNCHANGED metadata
            ELSE /\ metadata' =
                      [metadata EXCEPT !.offset_hdr = IF r.ret THEN r.out ELSE Rat(1, 1)]
                 /\ Goto("hdrCapacityMin")
  /\ UNCHANGED <<handler, str>>
  /\ Untouched
\* if (!handler.getOffsetHdr(&metadata->offset_hdr, &present)) {
\*   if (present) return the error;  metadata->offset_hdr = 1.0f / 64.0f; }
ResolveOffsetHdr ==
  /\ pc = "offsetHdr"
  /\ LET r == getOffsetHdr(handler, metadata.offset_hdr, present)
     IN  /\ present' = r.present
         /\ IF ~r.ret /\ r.present
            THEN Return(UnableToParse(kMapOffsetHdr)) /\ UNCHANGED metadata
            ELSE /\ metadata' =
                      [metadata EXCEPT !.offset_hdr = IF r.ret THEN r.out ELSE Rat(1, 64)]
                 /\ Goto("hdrCapacityMin")
  /\ UNCHANGED <<handler, str>>
  /\ Untouched

\* if (!handler.getHdrCapacityMin(&metadata->hdr_capacity_min, &present)) {
\*   if (present) return the error;  metadata->hdr_capacity_min = 1.0f; }
ResolveHdrCapacityMin ==
  /\ pc = "hdrCapacityMin"
  /\ LET r == getHdrCapacityMin(handler, metadata.hdr_capacity_min, present)
     IN  /\ present' = r.present
         /\ IF ~r.ret /\ r.present
            THEN Return(UnableToParse(kMapHDRCapacityMin)) /\ UNCHANGED metadata
            ELSE /\ metadata' =
                      [metadata EXCEPT !.hdr_capacity_min = IF r.ret THEN r.out ELSE Rat(1, 1)]
                 /\ Goto("baseRenditionIsHdr")
  /\ UNCHANGED <<handler, str>>
  /\ Untouched

\* bool base_rendition_is_hdr; the accessor sets it, or it is absent and
\* takes false, or the call returns; if (base_rendition_is_hdr) the call
\* returns "not supported"; return g_no_error.
ResolveBaseRenditionIsHdrAccepting ==
  /\ pc = "baseRenditionIsHdr"
  /\ LET r == getBaseRenditionIsHdr(handler, FALSE, present)
     IN  /\ present' = r.present
         /\ IF ~r.ret /\ r.present
            THEN Return(UnableToParse(kMapBaseRenditionIsHDR))
            ELSE Return(g_no_error)
  /\ UNCHANGED <<handler, metadata, str>>
  /\ Untouched
ResolveBaseRenditionIsHdr ==
  /\ pc = "baseRenditionIsHdr"
  /\ LET r == getBaseRenditionIsHdr(handler, FALSE, present)
         base_rendition_is_hdr == IF r.ret THEN r.out ELSE FALSE
     IN  /\ present' = r.present
         /\ IF ~r.ret /\ r.present
            THEN Return(UnableToParse(kMapBaseRenditionIsHDR))
            ELSE IF base_rendition_is_hdr
                 THEN Return(CodecError("hdr intent as base rendition is not supported"))
                 ELSE Return(g_no_error)
  /\ UNCHANGED <<handler, metadata, str>>
  /\ Untouched

Init ==
  /\ InitDS(0)
  /\ InitDest(0, 0)
  /\ InitScan
  /\ call = NoCall
  /\ status = g_no_error
  /\ InitGenIdle
  /\ xmp \in Inputs \cup GeneratedInputs
  /\ metadata \in StaleRecords
  /\ before = metadata
  /\ InitLocal
  /\ str = << >>
  /\ present = FALSE
  /\ pc = "start"

Next ==
  \/ CheckSize
  \/ CheckNameSpace
  \/ ParseXml
  \/ ResolveVersion
  \/ ResolveMaxContentBoost
  \/ ResolveHdrCapacityMax
  \/ ResolveMinContentBoost
  \/ ResolveGamma
  \/ ResolveOffsetSdr
  \/ ResolveOffsetHdr
  \/ ResolveHdrCapacityMin
  \/ ResolveBaseRenditionIsHdr

Spec == Init /\ [][Next]_vars
(***************************************************************************)
(* Claims about getMetadataFromXMP.  They speak of the state in which the  *)
(* call has returned.                                                      *)
(***************************************************************************)
Returned == pc = "returned"

\* The packet starts with the namespace declaration and its zero byte, the
\* tokenizer reports no error and the attributes sit on an rdf:Description.
ValidPrefix == xmp.data \in {PacketPlain, PacketWrapped}

WellFormed == ValidPrefix /\ ~xmp.hasErrors /\ xmp.shape # "other"

\* The attributes sit on the only rdf:Description of the packet, which has
\* no child element (the start of a child takes the scanner from Started
\* back to NotStrarted, and the element is then never completed).
OneTarget == xmp.shape = "leaf"

\* The scanner has seen a target element through to its end.
TargetCompleted == handler.state = "Done"

Parsable(a) == a.present /\ ExtractFloat(a.text).ok

Malformed(a) == a.present /\ ~ExtractFloat(a.text).ok

RequiredValid ==
  /\ xmp.doc.version.present
  /\ Parsable(xmp.doc.maxContentBoost)
  /\ Parsable(xmp.doc.hdrCapacityMax)

OptionalNumbers(doc) ==
  <<doc.minContentBoost, doc.gamma, doc.offsetSdr, doc.offsetHdr, doc.hdrCapacityMin>>

OptionalNames ==
  <<kMapGainMapMin, kMapGamma, kMapOffsetSdr, kMapOffsetHdr, kMapHDRCapacityMin>>

OptionalFields(m) ==
  <<m.min_content_boost, m.gamma, m.offset_sdr, m.offset_hdr, m.hdr_capacity_min>>

OptionalDefaults == <<Rat(1, 1), Rat(1, 1), Rat(1, 64), Rat(1, 64), Rat(1, 1)>>

\* What the accessor of the i-th optional number computes from its text.
OptionalValue(i, text) ==
  IF i \in {1, 5} THEN exp2(ExtractFloat(text).val) ELSE ExtractFloat(text).val

Succeeded == status = g_no_error

\* C7: in a packet with a valid namespace prefix and well-formed markup, a
\* target element without hdrgm:Version makes the call return the error
\* (UHDR_CODEC_ERROR, has_detail = 1) "could not find attribute
\* hdrgm:Version"; one with a version but without hdrgm:GainMapMax the error
\* naming hdrgm:GainMapMax; one with a version and a well-formed GainMapMax
\* but without hdrgm:HDRCapacityMax the error naming hdrgm:HDRCapacityMax.
\* This holds whatever the other attributes of the element are.
C7_MissingRequiredFieldIsNamed ==
  (Returned /\ WellFormed) =>
    /\ ~xmp.doc.version.present => status = CouldNotFind("hdrgm:Version")
    /\ (xmp.doc.version.present /\ ~xmp.doc.maxContentBoost.present)
         => status = CouldNotFind("hdrgm:GainMapMax")
    /\ (xmp.doc.version.present /\ Parsable(xmp.doc.maxContentBoost)
          /\ ~xmp.doc.hdrCapacityMax.present)
         => status = CouldNotFind("hdrgm:HDRCapacityMax")
    /\ (~xmp.doc.version.present \/ ~xmp.doc.maxContentBoost.present
          \/ ~xmp.doc.hdrCapacityMax.present)
         => (status.error_code = "UHDR_CODEC_ERROR" /\ status.has_detail = 1)

C7_Witness ==
  /\ Returned /\ WellFormed
  /\ xmp.doc.version.present /\ Parsable(xmp.doc.maxContentBoost)
  /\ ~xmp.doc.hdrCapacityMax.present
  /\ \A i \in 1..5 : Parsable(OptionalNumbers(xmp.doc)[i])
  /\ status = CouldNotFind(kMapHDRCapacityMax)

AllOptionalOmitted ==
  /\ \A i \in 1..5 : ~OptionalNumbers(xmp.doc)[i].present
  /\ ~xmp.doc.baseRenditionIsHdr.present

\* C8: a packet whose only target element carries a version and well-formed
\* hdrgm:GainMapMax and hdrgm:HDRCapacityMax and none of the six optional
\* attributes decodes without error, base rendition not HDR, with
\* min_content_boost = 1, gamma = 1, offset_sdr = offset_hdr = 1/64 and
\* hdr_capacity_min = 1 (and the three required values as given).
C8_DefaultsApplied ==
  (Returned /\ WellFormed /\ OneTarget /\ RequiredValid /\ AllOptionalOmitted) =>
    /\ Succeeded
    /\ metadata.min_content_boost = [num |-> 1, den |-> 1]
    /\ metadata.gamma = [num |-> 1, den |-> 1]
    /\ metadata.offset_sdr = [num |-> 1, den |-> 64]
    /\ metadata.offset_hdr = [num |-> 1, den |-> 64]
    /\ metadata.hdr_capacity_min = [num |-> 1, den |-> 1]
    /\ metadata.version = xmp.doc.version.text
    /\ metadata.max_content_boost = exp2(ExtractFloat(xmp.doc.maxContentBoost.text).val)
    /\ metadata.hdr_capacity_max = exp2(ExtractFloat(xmp.doc.hdrCapacityMax.text).val)

C8_Witness ==
  /\ Returned /\ WellFormed /\ OneTarget /\ RequiredValid /\ AllOptionalOmitted
  /\ Succeeded
  /\ metadata.offset_hdr = [num |-> 1, den |-> 64]
  /\ metadata.max_content_boost = [num |-> 4, den |-> 1]

\* Valid but for hdrgm:BaseRenditionIsHDR: the required attributes are
\* well-formed and every optional number is left out or well-formed.
OtherwiseValid ==
  /\ WellFormed /\ OneTarget /\ RequiredValid
  /\ \A i \in 1..5 : ~Malformed(OptionalNumbers(xmp.doc)[i])

\* C9: for an otherwise valid packet, hdrgm:BaseRenditionIsHDR="True" makes
\* the call return the error "hdr intent as base rendition is not
\* supported", "False" or no such attribute makes it succeed, and any other
\* text makes it return "unable to parse attribute
\* hdrgm:BaseRenditionIsHDR"; and for every packet whatever, the call does
\* not succeed when the scanner has recorded "True" for the attribute.
C9_HdrBaseRenditionIsRejected ==
  Returned =>
    /\ OtherwiseValid =>
         LET a == xmp.doc.baseRenditionIsHdr
         IN  /\ (a.present /\ a.text = <<"T", "r", "u", "e">>)
                  => status = CodecError("hdr intent as base rendition is not supported")
             /\ (~a.present \/ a.text = <<"F", "a", "l", "s", "e">>) => Succeeded
             /\ (a.present /\ a.text \notin {<<"T", "r", "u", "e">>,
                                             <<"F", "a", "l", "s", "e">>})
                  => status = UnableToParse("hdrgm:BaseRenditionIsHDR")
    /\ Succeeded =>
         ~(handler.baseRenditionIsHdrFound /\ handler.baseRenditionIsHdrStr = StrTrue)

C9_Witness ==
  /\ Returned /\ OtherwiseValid
  /\ xmp.doc.baseRenditionIsHdr = Present(StrTrue)
  /\ status = CodecError("hdr intent as base rendition is not supported")

\* The raw text and the found flag the scanner holds for the i-th optional
\* number.
RawOptional(h) ==
  <<[found |-> h.minContentBoostFound, text |-> h.minContentBoostStr],
    [found |-> h.gammaFound, text |-> h.gammaStr],
    [found |-> h.offsetSdrFound, text |-> h.offsetSdrStr],
    [found |-> h.offsetHdrFound, text |-> h.offsetHdrStr],
    [found |-> h.hdrCapacityMinFound, text |-> h.hdrCapacityMinStr]>>

RawMalformed(r) == r.found /\ ~ExtractFloat(r.text).ok

RawBaseMalformed(h) ==
  h.baseRenditionIsHdrFound /\ h.baseRenditionIsHdrStr \notin {StrTrue, StrFalse}

\* C10: once the call has returned on a packet whose target element the
\* scanner has completed,
\* (a) if the scanner holds, for an optional attribute, a text that its type
\*     does not admit, the call has not succeeded;
\* (b) if moreover the required attributes are well-formed and no optional
\*     attribute earlier in the order is malformed, the error is "unable to
\*     parse attribute <that attribute>" and the field of the record still
\*     holds what it held before the call, not the default;
\* (c) if the call has succeeded, each optional number holds the value of its
\*     text when the attribute was found and the default only when it was not.
C10_MalformedOptionalIsAnError ==
  (Returned /\ WellFormed /\ TargetCompleted) =>
    /\ \A i \in 1..5 : RawMalformed(RawOptional(handler)[i]) => ~Succeeded
    /\ RawBaseMalformed(handler) => ~Succeeded
    /\ RequiredValid =>
         /\ \A i \in 1..5 :
              (/\ RawMalformed(RawOptional(handler)[i])
               /\ \A j \in 1..(i - 1) : ~RawMalformed(RawOptional(handler)[j]))
              => /\ status = UnableToParse(OptionalNames[i])
                 /\ OptionalFields(metadata)[i] = OptionalFields(before)[i]
                 /\ OptionalFields(metadata)[i] # OptionalDefaults[i]
         /\ (/\ RawBaseMalformed(handler)
             /\ \A j \in 1..5 : ~RawMalformed(RawOptional(handler)[j]))
              => status = UnableToParse(kMapBaseRenditionIsHDR)
    /\ Succeeded =>
         \A i \in 1..5 :
           LET r == RawOptional(handler)[i]
           IN  OptionalFields(metadata)[i] =
                 IF r.found THEN OptionalValue(i, r.text) ELSE OptionalDefaults[i]

C10_Witness ==
  /\ Returned /\ WellFormed /\ TargetCompleted /\ RequiredValid
  /\ Malformed(xmp.doc.minContentBoost)
  /\ handler.minContentBoostFound
  /\ status = UnableToParse(kMapGainMapMin)
  /\ metadata.min_content_boost = before.min_content_boost

\* The packet is long enough and its leading bytes are not the namespace
\* declaration.
NamespaceMismatch ==
  /\ Len(xmp.data) >= Len(nameSpace) + 2
  /\ SubSeq(xmp.data, 1, Len(nameSpace)) # nameSpace

\* C11: for every input that passes the length check and whose leading
\* bytes differ from "http://ns.adobe.com/xap/1.0/", the call returns an
\* error with error_code UHDR_CODEC_ERROR, whatever follows the leading
\* bytes; the call never gets to the parse or to the resolution of a field:
\* no handler has been driven, no string built, the record is as it was.
C11_NamespaceMismatchIsAnError ==
  NamespaceMismatch =>
    /\ pc \in {"start", "namespace", "returned"}
    /\ handler = XMPXmlHandler /\ str = << >> /\ metadata = before
    /\ Returned =>
         /\ status.error_code = "UHDR_CODEC_ERROR" /\ status.has_detail = 1
         /\ status.detail =
              "mismatch in namespace of xmp block. Expected "
                \o "http://ns.adobe.com/xap/1.0/, Got "
                \o Printed(xmp.data, Len(nameSpace))

C11_Witness ==
  /\ Returned /\ NamespaceMismatch
  /\ xmp.data = PacketOtherNamespace /\ xmp.doc = AllPresent /\ xmp.shape = "leaf"
  /\ ~xmp.hasErrors
  /\ status.error_code = "UHDR_CODEC_ERROR"

\* What the tokenizer's run over the input leaves in a new handler.
Scanned == Parse(XMPXmlHandler, Tokens(xmp))

\* The value of an attribute the scanner holds: that of its text when the
\* attribute was found, the default when it was not.
ValueOr(found, text, isLog2, default) ==
  IF found
  THEN IF isLog2 THEN exp2(ExtractFloat(text).val) ELSE ExtractFloat(text).val
  ELSE default

\* The record the input determines.
DecodedRecord(h) ==
  [version |-> h.versionStr,
   max_content_boost |-> exp2(ExtractFloat(h.maxContentBoostStr).val),
   min_content_boost |->
     ValueOr(h.minContentBoostFound, h.minContentBoostStr, TRUE, Rat(1, 1)),
   gamma |-> ValueOr(h.gammaFound, h.gammaStr, FALSE, Rat(1, 1)),
   offset_sdr |-> ValueOr(h.offsetSdrFound, h.offsetSdrStr, FALSE, Rat(1, 64)),
   offset_hdr |-> ValueOr(h.offsetHdrFound, h.offsetHdrStr, FALSE, Rat(1, 64)),
   hdr_capacity_min |->
     ValueOr(h.hdrCapacityMinFound, h.hdrCapacityMinStr, TRUE, Rat(1, 1)),
   hdr_capacity_max |-> exp2(ExtractFloat(h.hdrCapacityMaxStr).val)]

\* C15: whenever the call has returned g_no_error, each of the eight fields
\* of the record holds the value of its attribute in the input, or its
\* default when the input has no such attribute, whichever of the two
\* records the caller passed in; no field holds what it held before the call.
C15_SuccessFillsTheRecord ==
  (Returned /\ Succeeded) =>
    /\ metadata = DecodedRecord(Scanned)
    /\ \A s \in StaleRecords :
         /\ metadata.version # s.version
         /\ metadata.max_content_boost # s.max_content_boost
         /\ metadata.min_content_boost # s.min_content_boost
         /\ metadata.gamma # s.gamma
         /\ metadata.offset_sdr # s.offset_sdr
         /\ metadata.offset_hdr # s.offset_hdr
         /\ metadata.hdr_capacity_min # s.hdr_capacity_min
         /\ metadata.hdr_capacity_max # s.hdr_capacity_max

C15_Witness ==
  /\ Returned /\ Succeeded
  /\ before = OtherStaleMetadata
  /\ ~xmp.doc.gamma.present /\ Parsable(xmp.doc.offsetSdr)
  /\ metadata.gamma = [num |-> 1, den |-> 1]
  /\ metadata.offset_sdr = [num |-> 1, den |-> 2]

\* The checks of the call in their order, each with what makes an input
\* fail it and the error it returns.  h is what the scan of the input leaves.
RawNumberBad(found, text) == ~(found /\ ExtractFloat(text).ok)

ChecksInOrder(h) ==
  <<[fails |-> Len(xmp.data) < Len(nameSpace) + 2,
     error |-> CodecError("size of xmp block is expected to be atleast "
                          \o ToString(Len(nameSpace) + 2) \o " bytes, received only "
                          \o ToString(Len(xmp.data)) \o " bytes")],
    [fails |-> \E i \in 1..Len(nameSpace) :
                 i > Len(xmp.data) \/ xmp.data[i] # nameSpace[i],
     error |-> CodecError("mismatch in namespace of xmp block. Expected "
                          \o "http://ns.adobe.com/xap/1.0/, Got "
                          \o Printed(xmp.data, Len(nameSpace)))],
    [fails |-> xmp.hasErrors,
     error |-> [error_code |-> "UHDR_CODEC_UNKNOWN_ERROR", has_detail |-> 1,
                detail |-> "xml parser returned with error"]],
    [fails |-> h.state # "Done" \/ ~h.versionFound,
     error |-> CouldNotFind("hdrgm:Version")],
    [fails |-> RawNumberBad(h.maxContentBoostFound, h.maxContentBoostStr),
     error |-> CouldNotFind("hdrgm:GainMapMax")],
    [fails |-> RawNumberBad(h.hdrCapacityMaxFound, h.hdrCapacityMaxStr),
     error |-> CouldNotFind("hdrgm:HDRCapacityMax")],
    [fails |-> RawMalformed(RawOptional(h)[1]),
     error |-> UnableToParse("hdrgm:GainMapMin")],
    [fails |-> RawMalformed(RawOptional(h)[2]),
     error |-> UnableToParse("hdrgm:Gamma")],
    [fails |-> RawMalformed(RawOptional(h)[3]),
     error |-> UnableToParse("hdrgm:OffsetSDR")],
    [fails |-> RawMalformed(RawOptional(h)[4]),
     error |-> UnableToParse("hdrgm:OffsetHDR")],
    [fails |-> RawMalformed(RawOptional(h)[5]),
     error |-> UnableToParse("hdrgm:HDRCapacityMin")],
    [fails |-> RawBaseMalformed(h),
     error |-> UnableToParse("hdrgm:BaseRenditionIsHDR")],
    [fails |-> h.baseRenditionIsHdrFound /\ h.baseRenditionIsHdrStr = StrTrue,
     error |-> CodecError("hdr intent as base rendition is not supported")]>>

\* The first check the input fails, 0 when it fails none.
FirstFailed(checks) ==
  IF \E k \in 1..Len(checks) : checks[k].fails
  THEN Min({k \in 1..Len(checks) : checks[k].fails})
  ELSE 0

\* The fields of the record in the order of their checks (checks 4 to 11).
FieldsInOrder(m) ==
  <<m.version, m.max_content_boost, m.hdr_capacity_max, m.min_content_boost, m.gamma,
    m.offset_sdr, m.offset_hdr, m.hdr_capacity_min>>

LabelsInOrder ==
  <<"start", "namespace", "parse", "version", "maxContentBoost", "hdrCapacityMax",
    "minContentBoost", "gamma", "offsetSdr", "offsetHdr", "hdrCapacityMin",
    "baseRenditionIsHdr", "returned">>

LabelIndex(l) == CHOOSE k \in 1..Len(LabelsInOrder) : LabelsInOrder[k] = l

ResultIsOfFirstFailedCheck ==
  Returned =>
    LET checks == ChecksInOrder(Scanned)
        k == FirstFailed(checks)
    IN  /\ status = IF k = 0 THEN g_no_error ELSE checks[k].error
        /\ k \in {1, 2} => (handler = XMPXmlHandler /\ str = << >>)
        /\ k # 0 => \A f \in 1..8 : f + 3 > k => FieldsInOrder(metadata)[f] =
                                                   FieldsInOrder(before)[f]

\* C16: the call makes its checks in the order length, namespace, tokenizer
\* errors, version, maxContentBoost, hdrCapacityMax, minContentBoost, gamma,
\* offsetSdr, offsetHdr, hdrCapacityMin, baseRenditionIsHdr: every step
\* goes to the next check or returns, the value returned is the error of the
\* first check the input fails (g_no_error if it fails none), and nothing a
\* later check would do is done: before the parse no handler is driven, and
\* the fields whose checks come later hold what they held before the call.
C16_FirstFailedCheckDecides ==
  /\ []ResultIsOfFirstFailedCheck
  /\ [][\/ pc' = "returned"
        \/ LabelIndex(pc') = LabelIndex(pc) + 1]_vars

C16_Witness ==
  /\ Returned
  /\ xmp.data = PacketWrapped /\ xmp.hasErrors /\ xmp.doc = AllAbsent
  /\ status.error_code = "UHDR_CODEC_UNKNOWN_ERROR"
  /\ handler.state = "Done"

(***************************************************************************)
(* Further properties of the scanner.                                      *)
(***************************************************************************)
\* The step delivers an element-start event whose name the tokenizer built.
StartDelivered == nEvents' = nEvents + 1 /\ event'.kind = "StartElement" /\ event'.built

\* C17: every element-start event (whose name the tokenizer delivers) changes
\* the state and nothing else of the handler: to Started if the name is
\* rdf:Description; otherwise to NotStrarted if the state was not Done, and
\* not at all if it was Done.
C17_StartElementTransition ==
  [][StartDelivered =>
       handler' = [handler EXCEPT !.state =
                     IF event'.name = "rdf:Description" THEN "Started"
                     ELSE IF handler.state = "Done" THEN "Done" ELSE "NotStrarted"]]_vars

\* The start of a child of the target element, after an attribute of the
\* target was recorded, has taken the scanner back to NotStrarted.
C17_Witness ==
  /\ nEvents = 4
  /\ open = <<"rdf:RDF", "rdf:Description">>
  /\ event.kind = "StartElement" /\ event.built /\ event.name = "rdf:RDF"
  /\ handler.versionFound
  /\ handler.state = "NotStrarted"

\* Every end so far closed an element that was open, and one is open now.
WellNested == open # << >> /\ \A k \in 1..Len(open) : open[k] # Unmatched

\* C18: the scanner enters Done only from Started and only in a step that
\* delivers an element end, and that step clears lastAttributeName; in a
\* well-nested sequence the element this end closes (if the handler got its
\* name) is rdf:Description, the target element itself, not a child, a
\* sibling or an enclosing element.
C18_DoneOnlyAtEndOfTarget ==
  [][(handler'.state = "Done" /\ handler.state # "Done") =>
       /\ handler.state = "Started"
       /\ nEvents' = nEvents + 1 /\ event'.kind = "FinishElement"
       /\ handler'.lastAttributeName = ""
       /\ (WellNested /\ Head(open) # "") =>
            (Head(open) = "rdf:Description" /\ open' = Tail(open))]_vars

\* The target element, inside another element and with an attribute
\* recorded, has just been closed.
C18_Witness ==
  /\ nEvents = 5
  /\ event.kind = "FinishElement"
  /\ open = <<"rdf:RDF">>
  /\ handler.state = "Done" /\ handler.versionFound
  /\ handler.lastAttributeName = ""

(***************************************************************************)
(* The preprocessing of getMetadataFromXMP, statement by statement, for    *)
(* packets that pass the length and the namespace check.  local.xmp_data   *)
(* is the number of bytes the pointer xmp_data has been advanced.          *)
(***************************************************************************)
Alphabet == {"<", "?", ">", "x"}

\* The input byte a pointer expression xmp_data[k] designates, k a size_t:
\* an index in the upper half of the word range lands before the pointer.
Index(k) == local.xmp_data + (IF k < WordModulus \div 2 THEN k ELSE k - WordModulus)

InRange(a) == a \in 0..(Len(xmp.data) - 1)

\* What a read of input byte a can give: the byte, or anything when a lies
\* outside the input.
ByteAt(a) == IF InRange(a) THEN {xmp.data[a + 1]} ELSE Alphabet

StripFrame ==
  UNCHANGED <<bufVars, wrVars, scanVars, call, status, xmp, metadata, before, present,
              genVars>>

\* xmp_data += nameSpace.size() + 1; xmp_size -= nameSpace.size() + 1;
\* size_t offset = 0; and i = 0 of the first loop.
SkipNameSpace ==
  /\ pc = "advance"
  /\ local' = [xmp_data |-> Len(nameSpace) + 1,
               xmp_size |-> SubWord(Len(xmp.data) % WordModulus, Len(nameSpace) + 1),
               offset |-> 0, i |-> 0]
  /\ pc' = "header"
  /\ UNCHANGED <<reads, str>>
  /\ StripFrame

\* for (size_t i = 0; i < xmp_size - 1; ++i)
\*   if (xmp_data[i] == '<') if (xmp_data[i + 1] != '?') { offset = i; break; }
HeaderLoopAnyLess ==
  /\ pc = "header"
  /\ IF local.i < SubWord(local.xmp_size, 1)
     THEN \E b0 \in ByteAt(Index(local.i)) :
            /\ reads' = reads \cup {Index(local.i)}
            /\ IF b0 = "<"
               THEN local' = [local EXCEPT !.offset = local.i] /\ pc' = "header_done"
               ELSE local' = [local EXCEPT !.i = AddWord(local.i, 1)] /\ pc' = pc
     ELSE pc' = "header_done" /\ UNCHANGED <<local, reads>>
  /\ UNCHANGED str
  /\ StripFrame
HeaderLoop ==
  /\ pc = "header"
  /\ IF local.i < SubWord(local.xmp_size, 1)
     THEN \E b0 \in ByteAt(Index(local.i)) :
            IF b0 = "<"
            THEN \E b1 \in ByteAt(Index(AddWord(local.i, 1))) :
                   /\ reads' = reads \cup {Index(local.i), Index(AddWord(local.i, 1))}
                   /\ IF b1 # "?"
                      THEN /\ local' = [local EXCEPT !.offset = local.i]
                           /\ pc' = "header_done"
                      ELSE /\ local' = [local EXCEPT !.i = AddWord(local.i, 1)]
                           /\ pc' = pc
            ELSE /\ reads' = reads \cup {Index(local.i)}
                 /\ local' = [local EXCEPT !.i = AddWord(local.i, 1)]
                 /\ pc' = pc
     ELSE pc' = "header_done" /\ UNCHANGED <<local, reads>>
  /\ UNCHANGED str
  /\ StripFrame

\* xmp_data += offset; xmp_size -= offset; offset = 0; and
\* i = xmp_size - 1 of the second loop.
HeaderSkip ==
  /\ pc = "header_done"
  /\ local' = [xmp_data |-> local.xmp_data + local.offset,
               xmp_size |-> SubWord(local.xmp_size, local.offset),
               offset |-> 0,
               i |-> SubWord(SubWord(local.xmp_size, local.offset), 1)]
  /\ pc' = "trailer"
  /\ UNCHANGED <<reads, str>>
  /\ StripFrame

\* for (size_t i = xmp_size - 1; i >= 1; --i)
\*   if (xmp_data[i] == '>')
\*     if (xmp_data[i - 1] != '?') { offset = xmp_size - (i + 1); break; }
TrailerLoop ==
  /\ pc = "trailer"
  /\ IF local.i >= 1
     THEN \E b0 \in ByteAt(Index(local.i)) :
            IF b0 = ">"
            THEN \E b1 \in ByteAt(Index(SubWord(local.i, 1))) :
                   /\ reads' = reads \cup {Index(local.i), Index(SubWord(local.i, 1))}
                   /\ IF b1 # "?"
                      THEN /\ local' = [local EXCEPT !.offset =
                                          SubWord(local.xmp_size, AddWord(local.i, 1))]
                           /\ pc' = "trailer_done"
                      ELSE /\ local' = [local EXCEPT !.i = SubWord(local.i, 1)]
                           /\ pc' = pc
            ELSE /\ reads' = reads \cup {Index(local.i)}
                 /\ local' = [local EXCEPT !.i = SubWord(local.i, 1)]
                 /\ pc' = pc
     ELSE pc' = "trailer_done" /\ UNCHANGED <<local, reads>>
  /\ UNCHANGED str
  /\ StripFrame

\* xmp_size -= offset;
TrailerTrim ==
  /\ pc = "trailer_done"
  /\ local' = [local EXCEPT !.xmp_size = SubWord(local.xmp_size, local.offset)]
  /\ pc' = "padding"
  /\ UNCHANGED <<reads, str>>
  /\ StripFrame

\* while (xmp_data[xmp_size - 1] != '>' && xmp_size > 1) xmp_size--;
PaddingLoopUnbounded ==
  /\ pc = "padding"
  /\ \E b \in ByteAt(Index(SubWord(local.xmp_size, 1))) :
       /\ reads' = reads \cup {Index(SubWord(local.xmp_size, 1))}
       /\ IF b # ">"
          THEN /\ local' = [local EXCEPT !.xmp_size = SubWord(local.xmp_size, 1)]
               /\ pc' = pc
          ELSE pc' = "string" /\ UNCHANGED local
  /\ UNCHANGED str
  /\ StripFrame
PaddingLoop ==
  /\ pc = "padding"
  /\ \E b \in ByteAt(Index(SubWord(local.xmp_size, 1))) :
       /\ reads' = reads \cup {Index(SubWord(local.xmp_size, 1))}
       /\ IF b # ">" /\ local.xmp_size > 1
          THEN /\ local' = [local EXCEPT !.xmp_size = SubWord(local.xmp_size, 1)]
               /\ pc' = pc
          ELSE pc' = "string" /\ UNCHANGED local
  /\ UNCHANGED str
  /\ StripFrame

\* string str(reinterpret_cast<const char*>(xmp_data), xmp_size); a byte
\* outside the input can be anything (one value stands for all such bytes).
MakeString ==
  /\ pc = "string"
  /\ \E b \in (IF \A k \in 0..(local.xmp_size - 1) : InRange(Index(k))
               THEN {"x"} ELSE Alphabet) :
       str' = [k \in 1..local.xmp_size |->
                 IF InRange(Index(k - 1)) THEN xmp.data[Index(k - 1) + 1] ELSE b]
  /\ reads' = reads \cup {Index(k) : k \in 0..(local.xmp_size - 1)}
  /\ pc' = "stripped"
  /\ UNCHANGED local
  /\ StripFrame

\* The texts after the namespace declaration; the byte that follows the
\* declaration is skipped whatever it is.
Rests ==
  (SeqsUpTo(Alphabet, MaxRest) \ {<< >>})
    \cup {SubSeq(PacketWrapped, Len(nameSpace) + 2, Len(PacketWrapped))}

StripInputs ==
  {[data |-> prefix \o rest, doc |-> AllPresent, shape |-> "leaf", hasErrors |-> FALSE] :
     prefix \in {c_str(nameSpace), nameSpace \o <<"<">>}, rest \in Rests}

StripInit ==
  /\ InitDS(0)
  /\ InitDest(0, 0)
  /\ InitScan
  /\ InitGenIdle
  /\ call = NoCall
  /\ status = g_no_error
  /\ xmp \in StripInputs
  /\ metadata = StaleMetadata
  /\ before = metadata
  /\ InitLocal
  /\ str = << >>
  /\ present = FALSE
  /\ pc = "advance"

StripNext ==
  \/ SkipNameSpace
  \/ HeaderLoop
  \/ HeaderSkip
  \/ TrailerLoop
  \/ TrailerTrim
  \/ PaddingLoop
  \/ MakeString

SpecStrip == StripInit /\ [][StripNext]_vars

\* The call is one thread of control that runs to its return: a step that
\* can be taken is taken.
SpecStripFair == SpecStrip /\ WF_vars(StripNext)

(***************************************************************************)
(* Properties of the preprocessing.                                        *)
(***************************************************************************)
Stripped == pc = "stripped"

\* The range that remains after the namespace declaration and the byte
\* after it; position k of the range is Rest[k + 1].
Rest == SubSeq(xmp.data, Len(nameSpace) + 2, Len(xmp.data))

\* Positions of a '<' that no '?' follows, the last position of the range
\* included.
OpeningsToTheEnd ==
  {k \in 0..(Len(Rest) - 1) :
     Rest[k + 1] = "<" /\ ~(k + 2 <= Len(Rest) /\ Rest[k + 2] = "?")}

\* Positions of a '<' followed by a byte that is not '?'.
OpeningsFollowed ==
  {k \in 0..(Len(Rest) - 2) : Rest[k + 1] = "<" /\ Rest[k + 2] # "?"}

\* Positions, from 1 on, of a '>' in t that no '?' precedes.
Closings(t) == {k \in 1..(Len(t) - 1) : t[k + 1] = ">" /\ t[k] # "?"}

\* The range starts at the first of the openings (where it started, if there
\* is none) and ends just after the last closing, if there is one.
StripsTo(openings) ==
  LET start == IF openings = {} THEN 0 ELSE Min(openings)
      t == SubSeq(Rest, start + 1, Len(Rest))
  IN  /\ local.xmp_data = Len(nameSpace) + 1 + start
      /\ Closings(t) # {} => str = SubSeq(t, 1, Max(Closings(t)) + 1)

WrappedForm == Rest = SubSeq(PacketWrapped, Len(nameSpace) + 2, Len(PacketWrapped))

\* C19 as claimed: the range handed to the scanner starts at the first '<'
\* that is not immediately followed by '?', wherever that '<' stands.
C19_StartsAtFirstOpening ==
  Stripped => StripsTo(OpeningsToTheEnd)

\* C19: the range handed to the scanner starts at the first '<' that is
\* followed by a byte other than '?' (at the start of the remaining range if
\* there is none: a '<' that is the last byte of the range does not count),
\* and if it contains, at index 1 or later, a '>' that no '?' precedes, it
\* ends just after the last such '>'.  For leading processing instruction +
\* body + trailing processing instruction + padding the scanner gets the
\* body.  It is the string the one-step account of the call (XmlPortion)
\* gives.
C19_WrapperIsStripped ==
  Stripped =>
    /\ StripsTo(OpeningsFollowed)
    /\ WrappedForm => str = Body
    /\ str = XmlPortion(xmp.data, Len(xmp.data))

C19_Witness ==
  /\ Stripped /\ WrappedForm
  /\ local.xmp_data = Len(nameSpace) + 1 + 5
  /\ str = <<"<", "x", "/", ">">>

\* The working range lies inside the input and is not empty.
WorkingRangeInside ==
  /\ local.xmp_size >= 1
  /\ local.xmp_data >= Len(nameSpace) + 1
  /\ local.xmp_data + local.xmp_size <= Len(xmp.data)

PreprocessingIsSafe ==
  /\ \A a \in reads : InRange(a)
  /\ pc \in {"header", "header_done", "trailer", "trailer_done", "padding", "string",
             "stripped"} => WorkingRangeInside
  /\ pc \in {"header", "trailer"} => local.i < local.xmp_size
  /\ pc \in {"header_done", "trailer_done"} => local.offset < local.xmp_size
  /\ Stripped =>
       /\ str # << >>
       /\ str = SubSeq(xmp.data, local.xmp_data + 1, local.xmp_data + local.xmp_size)
       /\ str[Len(str)] = ">" \/ Len(str) = 1

\* C20: for every packet that passes the length and namespace checks, every
\* byte the three loops (and the construction of the string) read lies
\* inside the input, the working length is at least 1 throughout and the
\* working range stays inside the input (no subtraction wraps around), the
\* loops come to their end, and the string handed to the scanner is a
\* non-empty sub-range of the input that ends in '>' or has length 1.
C20_PreprocessingStaysInside ==
  /\ []PreprocessingIsSafe
  /\ <>Stripped

\* A remaining range that is all padding: the padding loop has stopped at
\* length 1.
C20_Witness ==
  /\ Stripped
  /\ Len(Rest) = MaxRest
  /\ \A k \in 1..Len(Rest) : Rest[k] = "x"
  /\ local.xmp_size = 1 /\ str = <<"x">>
  /\ reads = (Len(nameSpace) + 1)..(Len(xmp.data) - 1)

(***************************************************************************)
(* The generators.                                                         *)
(***************************************************************************)
Generated(function) == gen.function = function /\ gen.returned

\* The names of the namespace declarations the generators write.
Declarations ==
  {Name("xmlns", p) : p \in {"x", "rdf", kContainerPrefix, kItemPrefix, kGainMapPrefix}}

\* The attributes of element e that are not namespace declarations.
Attributes(e) == SelectSeq(e.attributes, LAMBDA a : a.name \notin Declarations)

\* The elements written whose name is name.
Named(name) == {i \in DOMAIN writer.elements : writer.elements[i].name = name}

\* The elements written directly inside element i.
Children(i) == {j \in DOMAIN writer.elements : writer.elements[j].parent = i}

\* The number a numeral written by the writer denotes.
Denotes(text, x) == ExtractFloat(text).ok /\ ExtractFloat(text).val = x

\* The numeral is the base-2 logarithm of x.
DenotesLog2(text, x) == ExtractFloat(text).ok /\ exp2(ExtractFloat(text).val) = x

GainMapNames ==
  <<kMapVersion, kMapGainMapMin, kMapGainMapMax, kMapGamma, kMapOffsetSdr,
    kMapOffsetHdr, kMapHDRCapacityMin, kMapHDRCapacityMax, kMapBaseRenditionIsHDR>>

\* C13: when generateXmpForSecondaryImage has returned, the one
\* rdf:Description written carries exactly the nine gain-map attributes, in
\* the order Version, GainMapMin, GainMapMax, Gamma, OffsetSDR, OffsetHDR,
\* HDRCapacityMin, HDRCapacityMax, BaseRenditionIsHDR; the boosts and the
\* capacities are written as the base-2 logarithms of the record's values,
\* gamma and the offsets as the record's values, BaseRenditionIsHDR as the
\* literal "False"; no other element carries an attribute besides namespace
\* declarations and the toolkit name.
C13_NineAttributesInFixedOrder ==
  Generated("generateXmpForSecondaryImage") =>
    /\ Cardinality(Named(containerName)) = 1
    /\ \A i \in Named(containerName) :
         LET a == Attributes(writer.elements[i])
             m == gen.metadata
         IN  /\ [k \in DOMAIN a |-> a[k].name] = GainMapNames
             /\ a[1].value = m.version
             /\ DenotesLog2(a[2].value, m.min_content_boost)
             /\ DenotesLog2(a[3].value, m.max_content_boost)
             /\ Denotes(a[4].value, m.gamma)
             /\ Denotes(a[5].value, m.offset_sdr)
             /\ Denotes(a[6].value, m.offset_hdr)
             /\ DenotesLog2(a[7].value, m.hdr_capacity_min)
             /\ DenotesLog2(a[8].value, m.hdr_capacity_max)
             /\ a[9].value = <<"F", "a", "l", "s", "e">>
    /\ \A i \in DOMAIN writer.elements \ Named(containerName) :
         \A k \in DOMAIN Attributes(writer.elements[i]) :
           Attributes(writer.elements[i])[k].name \notin Range(GainMapNames)

C13_Witness ==
  /\ Generated("generateXmpForSecondaryImage")
  /\ gen.metadata.min_content_boost = Rat(1, 2)
  /\ gen.metadata.max_content_boost = Rat(4, 1)
  /\ gen.metadata.gamma = Rat(3, 2)
  /\ gen.metadata.offset_sdr = Rat(1, 64)
  /\ \E i \in Named(containerName) :
       Attributes(writer.elements[i])[2].value = <<"-", "1">>

\* The values of the attributes of element i whose name is name.
ValuesOf(i, name) ==
  {writer.elements[i].attributes[k].value :
     k \in {k \in DOMAIN writer.elements[i].attributes :
              writer.elements[i].attributes[k].name = name}}

\* Element i is an rdf:li holding one Container:Item of the given semantic
\* and MIME type.
IsItem(i, semantic, mime) ==
  /\ writer.elements[i].name = "rdf:li"
  /\ Cardinality(Children(i)) = 1
  /\ \A c \in Children(i) :
       /\ writer.elements[c].name = kConItem
       /\ Children(c) = {}
       /\ ValuesOf(c, kItemSemantic) = {semantic}
       /\ ValuesOf(c, kItemMime) = {mime}

\* The Item:Length values of the Container:Item of rdf:li i.
LengthsOf(i) == UNION {ValuesOf(c, kItemLength) : c \in Children(i)}

\* C14: when generateXmpForPrimaryImage has returned, exactly two rdf:li
\* elements are written; they are siblings inside the rdf:Seq of
\* Container:Directory; the first holds the Primary item and the second the
\* GainMap item, both of MIME type image/jpeg; only the GainMap item carries
\* Item:Length, and its value is secondary_image_length; every element
\* opened is closed.
C14_PrimaryDirectoryIsBalanced ==
  Generated("generateXmpForPrimaryImage") =>
    /\ Cardinality(Named("rdf:li")) = 2
    /\ \E p, q \in Named("rdf:li") :
         /\ p < q
         /\ writer.elements[p].parent = writer.elements[q].parent
         /\ writer.elements[p].parent \in Named("rdf:Seq")
         /\ \A s \in Named("rdf:Seq") : writer.elements[s].parent \in Named(kConDirectory)
         /\ IsItem(p, kSemanticPrimary, kMimeImageJpeg)
         /\ IsItem(q, kSemanticGainMap, kMimeImageJpeg)
         /\ LengthsOf(p) = {}
         /\ Cardinality(LengthsOf(q)) = 1
         /\ \A t \in LengthsOf(q) : Denotes(t, Rat(gen.secondary_image_length, 1))
    /\ writer.pending = << >>
    /\ \A i \in DOMAIN writer.elements : writer.elements[i].closed

C14_Witness ==
  /\ Generated("generateXmpForPrimaryImage")
  /\ gen.secondary_image_length = 1024
  /\ \E q \in Named("rdf:li") : LengthsOf(q) = {<<"1", "0", "2", "4">>}

(***************************************************************************)
(* The round trip.                                                         *)
(***************************************************************************)
\* The packet is the text generateXmpForSecondaryImage returned for
\* xmp.record, as it is.
TextAlone == xmp.shape = "generated" /\ xmp.data = SecondaryText(xmp.record)

\* The packet is that text after the namespace declaration and its zero byte.
TextAfterNameSpace ==
  xmp.shape = "generated" /\ xmp.data = c_str(nameSpace) \o SecondaryText(xmp.record)

WordSizes == (0..MaxSize) \cup ((WordModulus - MaxCap - 1)..(WordModulus - 1))

\* A source range of size bytes.
Ones(size) == [i \in 1..size |-> 1]

\* write(src, size) of DataStruct.
writeWords ==
  \E size \in WordSizes :
    LET r == write(This, Ones(size), size)
    IN  /\ data' = r.d.data
        /\ length' = r.d.length
        /\ writePos' = r.d.writePos
        /\ ret' = r.ret
        /\ call' = [op |-> "write", src |-> Ones(size), size |-> size]
        /\ sumOk' = IF r.ret THEN AddWord(sumOk, size) ELSE sumOk
        /\ UNCHANGED <<wrVars, status, scanVars, xmpVars, genVars>>

\* Write(destination, source, length, position)
WriteWords ==
  \E size \in WordSizes :
    LET r == Write(destination, Ones(size), size, position)
    IN  /\ destination' = r.destination
        /\ position' = r.position
        /\ status' = r.status
        /\ call' = [op |-> "Write", src |-> Ones(size), size |-> size]
        /\ UNCHANGED <<bufVars, scanVars, xmpVars, genVars>>

\* Either a DataStruct of some capacity or a destination of some capacity
\* with the caller's cursor anywhere up to it; the other buffer is empty.
WordsInit ==
  /\ \/ (\E s \in 0..MaxCap : InitDS(s)) /\ InitDest(0, 0)
     \/ InitDS(0) /\ (\E cap \in 0..MaxCap : \E pos \in 0..cap : InitDest(cap, pos))
  /\ InitScan
  /\ InitXmpIdle
  /\ InitGenIdle
  /\ call = NoCall
  /\ status = g_no_error

WordsNext == writeWords \/ WriteWords

SpecWords == WordsInit /\ [][WordsNext]_vars

\* C21: with cursor <= capacity, DataStruct::write and Write reject, with no
\* mutation, every request whose size exceeds capacity - cursor, the
\* requests for which cursor + size wraps around included; no accepted
\* request stores past the end of the buffer.
C21_OversizeRequestIsRejected ==
  /\ [](writePos <= length /\ position <= destination.capacity)
  /\ [][/\ (call'.op = "write" /\ call'.size > length - writePos)
             => (ret' = FALSE /\ writePos' = writePos /\ data' = data)
        /\ (call'.op = "Write" /\ call'.size > destination.capacity - position)
             => /\ status'.error_code = "UHDR_CODEC_MEM_ERROR"
                /\ position' = position
                /\ destination' = destination
        /\ (call'.op = "write" /\ ret' = TRUE) => writePos + call'.size <= length
        /\ (call'.op = "Write" /\ status' = g_no_error)
             => position + call'.size <= destination.capacity]_vars

\* A request larger than the whole buffer was accepted, by write and by Write.
C21_Witness ==
  \/ call.op = "write" /\ ret = TRUE /\ call.size > length /\ length > 0
  \/ /\ call.op = "Write" /\ status = g_no_error
     /\ call.size > destination.capacity /\ destination.capacity > 0

(***************************************************************************)
(* Success and the state of the scanner.                                   *)
(***************************************************************************)
\* A target element is started and finished in the events of the packet with
\* nothing but attributes in between.
TargetOpenedAndClosed ==
  LET events == Tokens(xmp)
  IN  \E i, j \in DOMAIN events :
        /\ i < j
        /\ events[i].kind = "StartElement" /\ events[i].name = containerName
        /\ events[j].kind = "FinishElement"
        /\ \A k \in (i + 1)..(j - 1) :
             events[k].kind \in {"AttributeName", "AttributeValue"}

\* Every accessor of h returns false, whatever its output arguments hold.
NoAccessorSucceeds(h) ==
  \A pres \in BOOLEAN :
    /\ ~getVersion(h, metadata.version, pres).ret
    /\ ~getMaxContentBoost(h, metadata.max_content_boost, pres).ret
    /\ ~getMinContentBoost(h, metadata.min_content_boost, pres).ret
    /\ ~getGamma(h, metadata.gamma, pres).ret
    /\ ~getOffsetSdr(h, metadata.offset_sdr, pres).ret
    /\ ~getOffsetHdr(h, metadata.offset_hdr, pres).ret
    /\ ~getHdrCapacityMin(h, metadata.hdr_capacity_min, pres).ret
    /\ ~getHdrCapacityMax(h, metadata.hdr_capacity_max, pres).ret
    /\ ~getBaseRenditionIsHdr(h, FALSE, pres).ret

\* C22: getMetadataFromXMP returns success only when the scanner finished in
\* Done, and then a target element was started and finished with no other
\* element started in between; while the scanner is in NotStrarted or
\* Started every accessor returns false, and a call that returns with the
\* scanner in one of these states returns an error.
C22_SuccessOnlyFromDone ==
  /\ (Returned /\ Succeeded) => (handler.state = "Done" /\ TargetOpenedAndClosed)
  /\ handler.state \in {"NotStrarted", "Started"} =>
       /\ NoAccessorSucceeds(handler)
       /\ Returned => ~Succeeded

\* A packet whose rdf:Description holds every attribute and a child element
\* has been scanned and refused.
C22_Witness ==
  /\ Returned
  /\ ValidPrefix /\ ~xmp.hasErrors
  /\ xmp.shape = "child" /\ xmp.doc = AllPresent
  /\ handler = Scanned
  /\ handler.state = "NotStrarted"
  /\ status = CouldNotFind(kMapVersion)

(***************************************************************************)
(* The byte after the namespace declaration.                               *)
(***************************************************************************)
\* The packet is long enough, its leading bytes are the namespace
\* declaration and the byte after them is not the zero byte.
TerminatorMissing ==
  /\ Len(xmp.data) >= Len(nameSpace) + 2
  /\ SubSeq(xmp.data, 1, Len(nameSpace)) = nameSpace
  /\ xmp.data[Len(nameSpace) + 1] # "NUL"

\* C23: getMetadataFromXMP returns UHDR_CODEC_ERROR, without scanning, for a
\* packet whose leading bytes are the namespace declaration but whose next
\* byte is not the terminating zero byte, and for a packet shorter than the
\* namespace declaration plus 2 bytes.
C23_TerminatorIsVerified ==
  /\ (Returned /\ TerminatorMissing) =>
       (status.error_code = "UHDR_CODEC_ERROR" /\ handler = XMPXmlHandler)
  /\ (Returned /\ Len(xmp.data) < Len(nameSpace) + 2) =>
       (status.error_code = "UHDR_CODEC_ERROR" /\ handler = XMPXmlHandler)

\* A packet without the zero byte has been decoded with success.
C23_Witness ==
  /\ Returned
  /\ TerminatorMissing
  /\ xmp.data = PacketNoNul
  /\ handler.state = "Done"
  /\ Succeeded

====
